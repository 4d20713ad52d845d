----------------------------- MODULE Container -----------------------------
(***************************************************************************)
(* The dependency container of a process (internal/app/container.go): the  *)
(* constructors that build and buildWorker provide, and how dig resolves   *)
(* the parameters of the function that is invoked: depth first, in their   *)
(* order, each value once.  A function whose parameters nobody provides is *)
(* refused before any of them is built, and it alone: the parameters of    *)
(* its callers may have been built by then.                                *)
(***************************************************************************)
EXTENDS Integers, Sequences

VARIABLES
    proc,     \* the process: "service" or "worker"
    stack,    \* functions whose parameters are being built, the innermost first
    built,    \* values
    failure   \* why the invocation failed

container == <<proc, stack, built, failure>>

\* A function: the values it gives and the parameters it needs.
Fn(gives, needs) == [gives |-> gives, needs |-> needs]

registerCore ==
    {Fn({"Context"}, <<>>),
     Fn({"Logger"}, <<>>),
     Fn({"Config"}, <<>>),
     Fn({"RateCounter", "RetryCounter"}, <<>>),
     Fn({"Interval"}, <<"Config">>)}

registerDb == {Fn({"Pool"}, <<"Context", "Config", "Logger">>)}

registerDomainServices ==
    {Fn({"CourierRepo"}, <<"Pool">>),
     Fn({"DeliveryRepo"}, <<"Pool", "Logger">>),
     Fn({"Duration"}, <<>>),
     Fn({"CourierService"}, <<"CourierRepo", "Duration">>),
     Fn({"TimeFactory"}, <<>>),
     Fn({"DeliveryService"}, <<"DeliveryRepo", "Duration", "TimeFactory", "Logger">>)}

registerWorker ==
    {Fn({"OrdersGateway", "OrdersCloser"}, <<"Context", "Config", "Logger", "RetryCounter">>),
     Fn({"Processor"}, <<"DeliveryPort", "DeliveryRepo">>),
     Fn({"HandleFunc"}, <<"OrdersHandler", "OrdersGateway">>),
     Fn({"Consumer"}, <<"Config", "HandleFunc", "Logger">>)}

\* newRateLimitClock, newRateLimiter, newRateLimitMiddleware.
RateLimiting ==
    {Fn({"Clock"}, <<>>),
     Fn({"Limiter"}, <<"Config", "Clock">>),
     Fn({"RateLimitMiddleware"}, <<"Logger", "RateCounter", "Limiter">>)}

\* Mutant: newRateLimitClock is not provided.
registerHTTPWithoutClock ==
    {Fn({"Handlers"}, <<"Logger">>),
     Fn({"CourierUsecase"}, <<"CourierService">>),
     Fn({"CourierHandler"}, <<"Logger", "CourierUsecase">>),
     Fn({"DeliveryUsecase"}, <<"DeliveryService">>),
     Fn({"DeliveryHandler"}, <<"Logger", "DeliveryUsecase">>),
     Fn({"HTTPHandler"}, <<"Handlers", "CourierHandler", "DeliveryHandler", "RateLimitMiddleware">>),
     Fn({"Server", "PprofServer"}, <<"Config", "HTTPHandler">>)}
    \cup (RateLimiting \ {Fn({"Clock"}, <<>>)})

registerHTTP ==
    {Fn({"Handlers"}, <<"Logger">>),
     Fn({"CourierUsecase"}, <<"CourierService">>),
     Fn({"CourierHandler"}, <<"Logger", "CourierUsecase">>),
     Fn({"DeliveryUsecase"}, <<"DeliveryService">>),
     Fn({"DeliveryHandler"}, <<"Logger", "DeliveryUsecase">>),
     Fn({"HTTPHandler"}, <<"Handlers", "CourierHandler", "DeliveryHandler", "RateLimitMiddleware">>),
     Fn({"Server", "PprofServer"}, <<"Config", "HTTPHandler">>)}
    \cup RateLimiting

\* appRun and workerRun; the optional parameter OrdersCloser of appDeps, which
\* nobody provides in the service, is nil there.
Target ==
    IF proc = "service"
    THEN Fn({}, <<"Server", "PprofServer", "Context", "Pool", "Logger", "DeliveryService", "Interval">>)
    ELSE Fn({}, <<"Context", "Pool", "Logger", "Consumer", "OrdersCloser">>)

Provided ==
    registerCore \cup registerDb \cup registerDomainServices
    \cup (IF proc = "service" THEN registerHTTP ELSE registerWorker)

\* Functions that return an error, apart from config.Load and the connection to
\* the database: provideMetrics, provideOrdersGateway and the consumer's.
Fallible == {"RateCounter", "OrdersGateway", "Consumer"}
-----------------------------------------------------------------------------
Providers(t) == {f \in Provided : t \in f.gives}
Lacking(f) == {i \in DOMAIN f.needs : Providers(f.needs[i]) = {}}

\* The parameters that are still to be built, in their order.
Wanted(f) == SelectSeq(f.needs, LAMBDA t : t \notin built)

\* The function whose turn it is can run: it has all it needs.
Running == stack # <<>> /\ Lacking(Head(stack)) = {} /\ Wanted(Head(stack)) = <<>>
Building(t) == Running /\ t \in Head(stack).gives

ContainerInit ==
    /\ proc \in {"service", "worker"}
    /\ stack = <<Target>> /\ built = {} /\ failure = "none"

Fails(why) ==
    /\ failure' = why /\ stack' = <<>>
    /\ UNCHANGED <<proc, built>>

\* The next parameter's function is called ...
Resolve ==
    /\ stack # <<>> /\ Lacking(Head(stack)) = {} /\ Wanted(Head(stack)) # <<>>
    /\ \E f \in Providers(Head(Wanted(Head(stack)))) : stack' = <<f>> \o stack
    /\ UNCHANGED <<proc, built, failure>>

\* ... and looks first whether its own have providers.
Unresolved ==
    /\ stack # <<>> /\ Lacking(Head(stack)) # {}
    /\ Fails("missing")

\* A function returns its values.
Construct ==
    /\ Running
    /\ built' = built \cup Head(stack).gives /\ stack' = Tail(stack)
    /\ UNCHANGED <<proc, failure>>
=============================================================================
