------------------------------ MODULE Process -------------------------------
(***************************************************************************)
(* A process from its start: the container resolves what the process is to *)
(* run, on the way config.Load reads the environment (Config) and the pool *)
(* is connected; service-courier then lives its life (Lifecycle).          *)
(***************************************************************************)
EXTENDS Lifecycle, Container, Config

CONSTANT Environments   \* environments the process may find

Texts == [kind : {"unset", "blank", "garbage", "number"}, value : Int]

ASSUME EnvironmentsAssumption ==
    Environments \subseteq
        [os : [Keys -> Texts], file : [Keys -> Texts], parsed : BOOLEAN, flag : Texts,
         secret : {"none", "missing", "readable", "unreadable"}]

VARIABLE loaded   \* the settings, once they are: the set of them

processVars == <<vars, container, loaded>>

ProcessInit == Init /\ ContainerInit /\ loaded = {}

\* Functions are called and return.
Resolution ==
    /\ \/ Resolve
       \/ ~Building("Config") /\ ~Building("Pool") /\ stack # <<Target>> /\ Construct
    /\ UNCHANGED <<vars, loaded>>

\* config.Load.
LoadReturns ==
    /\ Building("Config") /\ Construct
    /\ \E env \in Environments :
          /\ Accepts(env)
          /\ loaded' = {Load(env)}
          /\ Configure(Load(env).Pprof, Load(env).AutoReleaseInterval > 0)

LoadRefuses ==
    /\ Building("Config") /\ \E env \in Environments : ~Accepts(env)
    /\ InvokeFails /\ Fails("error")
    /\ UNCHANGED loaded

\* The connection to the database.
PoolReturns == Building("Pool") /\ Construct /\ Connect /\ UNCHANGED loaded

PoolFails ==
    /\ Building("Pool")
    /\ ConnectFails \/ ConnectAgain \/ ConnectAbandoned
    /\ IF pc' = "exited" THEN Fails("error") ELSE UNCHANGED container
    /\ UNCHANGED loaded

\* Metrics, gateway or consumer cannot be made, or a parameter has no provider.
\* MustRun of the worker panics then, that of the service logs the error; both
\* end the process without closing what was built.
InvocationFails ==
    /\ InvokeFails
    /\ \/ (\E t \in Fallible : Building(t)) /\ Fails("error")
       \/ Unresolved
    /\ UNCHANGED loaded

\* The function invoked is called: appRun.
Invoked ==
    /\ proc = "service" /\ stack = <<Target>> /\ Construct
    /\ Start
    /\ UNCHANGED loaded

Begins == Resolution \/ LoadReturns \/ LoadRefuses \/ PoolReturns \/ PoolFails
          \/ InvocationFails \/ Invoked

Lives == (Stop \/ Others) /\ UNCHANGED <<container, loaded>>

ProcessNext == Begins \/ Lives

\* Goroutines run; a transaction ends, by its time-out if by nothing else.
Fairness ==
    /\ WF_processVars(Begins)
    /\ WF_processVars(Stop /\ Lives)
    /\ WF_processVars(ReleaseEnds /\ Lives)
    /\ \A r \in Reqs : WF_processVars(Serve(r) /\ Lives)

ProcessSpec == ProcessInit /\ [][ProcessNext]_processVars
FairSpec == ProcessSpec /\ Fairness
-----------------------------------------------------------------------------
(* A signal, or the end of the HTTP server, ends the process.              *)
StopsWhenAsked == ctxDone \/ server = "stopped" ~> pc = "exited"

(* Every parameter of every constructor that service-courier needs has a   *)
(* provider: nothing but running the process tells.                        *)
ServiceResolves == proc = "service" => failure # "missing"

(* README: service-courier-worker processes the events of orders; it is to *)
(* be resolved, too.                                                       *)
WorkerResolves == proc = "worker" => failure # "missing"

(* Wherever they come from, environment, .env, flag or default, and        *)
(* whichever of them are left out, the settings of a process are among     *)
(* those that its parts are verified for (Gateway, RateLimiter).           *)
Fits(s) ==
    /\ 0 < s.Port /\ s.Port <= 65535
    /\ s.OrdersGateway.MaxAttempts \in 1..10
    /\ 0 < s.OrdersGateway.BaseDelay /\ s.OrdersGateway.BaseDelay <= s.OrdersGateway.MaxDelay
    /\ s.RateLimit.Rate > 0 /\ s.RateLimit.Burst >= 1
    /\ s.RateLimit.TTL >= 0 /\ s.RateLimit.MaxBuckets >= 0

SettingsFit == \A s \in loaded : Fits(s)
=============================================================================
