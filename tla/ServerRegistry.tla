---------------------------- MODULE ServerRegistry ----------------------------
(***************************************************************************)
(* Setting up a Server and starting to serve it (go/server.go,             *)
(* go/registration.go).  Goroutines register generated services, connect   *)
(* remote ones, configure limits, interceptors and filters, all under the  *)
(* mutex mu, until the first of them serves or invokes something: freeze   *)
(* ends the setup, and from then on everyone reads the tools, limits and   *)
(* interceptors without the mutex.                                         *)
(***************************************************************************)
EXTENDS Naturals, Sequences, FiniteSets, SequencesExt

CONSTANTS
    Service,            \* gRPC services that may be registered
    Parsed,             \* those of the server's descriptor
    Agreeing,           \* those whose generated code agrees with the descriptor
    Builtin,            \* those that newNativeGRPCServer registers (reflection)
    Method, OwnerOf, KindOf,    \* methods, the service of each and its kind
    Group,              \* calls of RegisterService, ConnectGRPC, ConnectHTTP
    Connection,         \* those that are connections
    Offers,             \* the services of a call, in the order they are committed
    Pattern, Matches,   \* filter patterns and the methods that each matches
    EnvIncludes, EnvExcludes,   \* patterns of INVARIANT_INCLUDE and _EXCLUDE
    Thread,             \* goroutines
    Interceptor,
    DefaultCap, MaxCap, \* the default of a byte limit; bound on limits
    Configured,         \* bound: methods that ConfigureMethod is called for
    MaxChain,           \* bound on registered interceptors
    NoThread, NoGroup

ASSUME RegistryAssumption ==
    /\ Parsed \subseteq Service /\ Agreeing \subseteq Service /\ Builtin \subseteq Service
    /\ OwnerOf \in [Method -> Service]
    /\ KindOf \in [Method -> {"unary", "server_stream", "client_stream"}]
    /\ Connection \subseteq Group
    /\ Offers \in [Group -> Seq(Service)]
    /\ \A g \in Connection : ToSet(Offers[g]) \subseteq Parsed
    /\ Matches \in [Pattern -> SUBSET Method]
    /\ EnvIncludes \subseteq Pattern /\ EnvExcludes \subseteq Pattern
    /\ Configured \subseteq Method
    /\ MaxCap \in Nat /\ DefaultCap \in 1..MaxCap /\ MaxChain \in Nat
    /\ NoThread \notin Thread /\ NoGroup \notin Group

VARIABLES
    mu,             \* the goroutine that holds the mutex across steps
    frozen, frozenFast,
    includes, excludes,
    cap, capOf,     \* a byte limit of the server, and of methods (0: the server's)
    chain,          \* interceptors, in registration order
    registered,     \* registeredServices: the call that registered each service
    native,         \* services of grpcServer
    tools,          \* methods projected as tools
    pc, group,      \* of each goroutine: what it does, and the call it makes
    todo            \* services that the holder of mu has still to commit

setup == <<includes, excludes, cap, capOf, chain, registered, native, tools>>
vars == <<mu, frozen, frozenFast, setup, pc, group, todo>>

Init ==
    /\ mu = NoThread
    /\ frozen = FALSE /\ frozenFast = FALSE
    /\ includes = {} /\ excludes = {}
    /\ cap = DefaultCap /\ capOf = [m \in Method |-> 0]
    /\ chain = <<>>
    /\ registered = [s \in Service |-> NoGroup]
    /\ native = Builtin
    /\ tools = {}
    /\ pc = [t \in Thread |-> "idle"]
    /\ group = [t \in Thread |-> NoGroup]
    /\ todo = <<>>

(***************************************************************************)
(* updateConfiguration and updateProjectionFilters; both panic, and change *)
(* nothing, when their guards fail.                                        *)
(***************************************************************************)
UpdateConfiguration(t) == pc[t] = "idle" /\ mu = NoThread /\ ~frozen

\* Mutant: filters may change while services are registered.
FiltersAnyTime(t) == UpdateConfiguration(t)

UpdateProjectionFilters(t) ==
    /\ pc[t] = "idle" /\ mu = NoThread /\ ~frozen
    /\ \A s \in Service : registered[s] = NoGroup

\* SetMaxUnaryRequestBytes and the other limits.
SetMaxBytes(t, n) ==
    /\ UpdateConfiguration(t)
    /\ cap' = IF n = 0 THEN DefaultCap ELSE n
    /\ UNCHANGED <<includes, excludes, capOf, chain, registered, native, tools>>
    /\ UNCHANGED <<mu, frozen, frozenFast, pc, group, todo>>

ConfigureMethod(t, m, n) ==
    /\ UpdateConfiguration(t)
    /\ capOf' = [capOf EXCEPT ![m] = n]
    /\ UNCHANGED <<includes, excludes, cap, chain, registered, native, tools>>
    /\ UNCHANGED <<mu, frozen, frozenFast, pc, group, todo>>

Use(t, i) ==
    /\ UpdateConfiguration(t)
    /\ Len(chain) < MaxChain
    /\ chain' = Append(chain, i)
    /\ UNCHANGED <<includes, excludes, cap, capOf, registered, native, tools>>
    /\ UNCHANGED <<mu, frozen, frozenFast, pc, group, todo>>

Include(t, p) ==
    /\ UpdateProjectionFilters(t)
    /\ includes' = includes \cup {p}
    /\ UNCHANGED <<excludes, cap, capOf, chain, registered, native, tools>>
    /\ UNCHANGED <<mu, frozen, frozenFast, pc, group, todo>>

Exclude(t, p) ==
    /\ UpdateProjectionFilters(t)
    /\ excludes' = excludes \cup {p}
    /\ UNCHANGED <<includes, cap, capOf, chain, registered, native, tools>>
    /\ UNCHANGED <<mu, frozen, frozenFast, pc, group, todo>>

(***************************************************************************)
(* Registration.                                                           *)
(***************************************************************************)
\* shouldIncludeLocked: some include matches, if there are any, and no exclude.
ShouldInclude(m) ==
    LET in == includes \cup EnvIncludes IN
    /\ in # {} => \E p \in in : m \in Matches[p]
    /\ \A p \in excludes \cup EnvExcludes : m \notin Matches[p]

\* toolsForService: connections have unary methods only, generated services have
\* server-streaming methods as well.
ToolsForService(g, s) ==
    {m \in Method :
        /\ s \in Parsed /\ OwnerOf[m] = s
        /\ KindOf[m] \in (IF g \in Connection THEN {"unary"} ELSE {"unary", "server_stream"})
        /\ ShouldInclude(m)}

\* ensureRegistrationOpen at the start of ConnectGRPC and ConnectHTTP, which go on
\* to build descriptors without the mutex.
Connect(t, g) ==
    /\ pc[t] = "idle" /\ g \in Connection
    /\ mu = NoThread
    /\ ~frozen
    /\ pc' = [pc EXCEPT ![t] = "connecting"]
    /\ group' = [group EXCEPT ![t] = g]
    /\ UNCHANGED <<mu, frozen, frozenFast, setup, todo>>

\* Mutant: the check that the connection began with is trusted.
StagesLate(g) ==
    /\ frozen => g \in Connection
    /\ IsInjective(Offers[g])
    /\ \A s \in ToSet(Offers[g]) : registered[s] = NoGroup /\ s \notin native

\* registerServices, the checks under the mutex: the whole call is staged or refused.
Stages(g) ==
    /\ ~frozen
    /\ IsInjective(Offers[g])
    /\ \A s \in ToSet(Offers[g]) :
          /\ registered[s] = NoGroup
          /\ s \notin native
          /\ s \in Parsed /\ g \notin Connection => s \in Agreeing
          /\ ToolsForService(g, s) \cap tools = {}

\* Mutant: services that are there already are left out of the call.
RegisterNew(t, g) ==
    /\ \/ pc[t] = "connecting" /\ group[t] = g
       \/ pc[t] = "idle" /\ g \notin Connection
    /\ mu = NoThread
    /\ ~frozen
    /\ mu' = t
    /\ pc' = [pc EXCEPT ![t] = "committing"]
    /\ group' = [group EXCEPT ![t] = g]
    /\ todo' = SelectSeq(Offers[g], LAMBDA s : registered[s] = NoGroup /\ s \notin native)
    /\ UNCHANGED <<frozen, frozenFast, setup>>

\* registerServices takes the mutex, stages the call and keeps it; or gives it back.
Register(t, g) ==
    /\ \/ pc[t] = "connecting" /\ group[t] = g
       \/ pc[t] = "idle" /\ g \notin Connection
    /\ mu = NoThread
    /\ IF Stages(g)
       THEN /\ mu' = t
            /\ pc' = [pc EXCEPT ![t] = "committing"]
            /\ group' = [group EXCEPT ![t] = g]
            /\ todo' = Offers[g]
       ELSE /\ pc' = [pc EXCEPT ![t] = "idle"]
            /\ group' = [group EXCEPT ![t] = NoGroup]
            /\ UNCHANGED <<mu, todo>>
    /\ UNCHANGED <<frozen, frozenFast, setup>>

\* One service: RegisterService of grpc-go, registeredServices, addTool for its tools.
CommitService(t) ==
    /\ mu = t /\ todo # <<>>
    /\ LET s == Head(todo) IN
          /\ native' = native \cup {s}
          /\ registered' = [registered EXCEPT ![s] = group[t]]
          /\ tools' = tools \cup ToolsForService(group[t], s)
    /\ todo' = Tail(todo)
    /\ UNCHANGED <<mu, frozen, frozenFast, includes, excludes, cap, capOf, chain, pc, group>>

\* The deferred Unlock.
Unlock(t) ==
    /\ mu = t /\ todo = <<>>
    /\ mu' = NoThread
    /\ pc' = [pc EXCEPT ![t] = "idle"]
    /\ group' = [group EXCEPT ![t] = NoGroup]
    /\ UNCHANGED <<frozen, frozenFast, setup, todo>>

(***************************************************************************)
(* Serving.  HTTPHandler, GRPCServer, Serve, ServeProjections, Invoke and  *)
(* InvokeStream call freeze and then read without the mutex.               *)
(***************************************************************************)
Start(t) ==
    /\ pc[t] = "idle"
    /\ pc' = [pc EXCEPT ![t] = "freezing"]
    /\ UNCHANGED <<mu, frozen, frozenFast, setup, group, todo>>

FreezeFast(t) ==
    /\ pc[t] = "freezing"
    /\ frozenFast
    /\ pc' = [pc EXCEPT ![t] = "serving"]
    /\ UNCHANGED <<mu, frozen, frozenFast, setup, group, todo>>

\* Mutant: freeze does not wait for the mutex.
FreezeTries(t) ==
    /\ pc[t] = "freezing"
    /\ IF mu = NoThread
       THEN frozen' = TRUE /\ frozenFast' = TRUE /\ pc' = [pc EXCEPT ![t] = "serving"]
       ELSE pc' = [pc EXCEPT ![t] = "idle"] /\ UNCHANGED <<frozen, frozenFast>>
    /\ UNCHANGED <<mu, setup, group, todo>>

FreezeSlow(t) ==
    /\ pc[t] = "freezing"
    /\ mu = NoThread
    /\ frozen' = TRUE /\ frozenFast' = TRUE
    /\ pc' = [pc EXCEPT ![t] = "serving"]
    /\ UNCHANGED <<mu, setup, group, todo>>

Finish(t) ==
    /\ pc[t] = "serving"
    /\ pc' = [pc EXCEPT ![t] = "idle"]
    /\ UNCHANGED <<mu, frozen, frozenFast, setup, group, todo>>

Next ==
    \E t \in Thread :
        \/ \E n \in 0..MaxCap :
              SetMaxBytes(t, n) \/ \E m \in Configured : ConfigureMethod(t, m, n)
        \/ \E i \in Interceptor : Use(t, i)
        \/ \E p \in Pattern : Include(t, p) \/ Exclude(t, p)
        \/ \E g \in Group : Connect(t, g) \/ Register(t, g)
        \/ CommitService(t) \/ Unlock(t)
        \/ Start(t) \/ FreezeFast(t) \/ FreezeSlow(t) \/ Finish(t)

\* A goroutine inside a call goes on, and sync.RWMutex starves no one who waits for it.
Fairness ==
    \A t \in Thread :
        /\ WF_vars(CommitService(t)) /\ WF_vars(Unlock(t))
        /\ SF_vars(FreezeFast(t) \/ FreezeSlow(t))

Spec == Init /\ [][Next]_vars /\ Fairness

(***************************************************************************)
(* Properties.                                                             *)
(***************************************************************************)
\* registerServices commits all services of a call or none of them: whenever the
\* mutex is free, a call that owns one of the services it offers owns all of them.
CallsWhole ==
    mu = NoThread =>
        \A g \in Group : \A s, r \in ToSet(Offers[g]) :
            registered[s] = g => registered[r] = g

\* Whenever the mutex is free, what is projected is what the filters select from the
\* natively served services, whatever the order of the setup calls was; nothing is
\* projected that gRPC does not serve.
ProjectionFollowsFilters ==
    mu = NoThread =>
        /\ native = Builtin \cup {s \in Service : registered[s] # NoGroup}
        /\ tools = UNION {ToolsForService(registered[s], s) :
                             s \in {r \in Service : registered[r] # NoGroup}}

\* Once serving has begun nothing that is read without the mutex ever changes again:
\* neither a registration or connection in progress nor a setter slips past freeze.
ConstantOnceServing ==
    [][(frozen \/ \E t \in Thread : pc[t] = "serving") => frozen' /\ UNCHANGED setup]_vars

\* freeze always returns: whoever starts to serve gets to serve.
FreezeReturns == \A t \in Thread : pc[t] = "freezing" ~> pc[t] = "serving"
================================================================================
