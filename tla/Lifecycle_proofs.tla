------------------------- MODULE Lifecycle_proofs -------------------------
(* Safety of the life cycle for any number of requests, attempts to connect *)
(* and connections.                                                         *)
EXTENDS Process, SequenceTheorems, TLAPS

\* Before the start nothing uses the pool.
NotStarted ==
    pc \in {"config", "connect", "backoff", "start"} => Idle /\ loop = "new" /\ server = "new"

\* From the shutdown on nothing is accepted.
Closed == pc \in {"drain", "pprof", "close", "pool"} => down

\* Once the shutdown has waited to the end, no request is under way.
Quiet ==
    /\ pc \in {"pprof", "close", "pool"} /\ ~timedOut => Idle
    /\ pc = "exited" /\ ticks /\ ~timedOut => Idle

\* It waits only for a further attempt.
MoreAttempts == pc = "backoff" => tries < Retries

\* The server's channel holds something only after its end.
Announced == serverCh # Nothing => server = "stopped"

IInv ==
    /\ TypeOK /\ MoreAttempts /\ Announced /\ NotStarted /\ Closed
    /\ Quiet /\ NoTransactionCut /\ StopsForAReason

LEMMA InitIInv == Init => IInv
<1> SUFFICES ASSUME Init PROVE IInv
  OBVIOUS
<1> USE DEF Init
<1>1. TypeOK
  <2>1. tries \in 1..Retries
    BY LifecycleAssumption DEF LifecycleAssumption
  <2>2. req \in [Reqs -> {"none", "read", "tx", "write"}]
    OBVIOUS
  <2> QED BY <2>1, <2>2 DEF TypeOK, Nothing
<1>2. MoreAttempts /\ Announced /\ NotStarted /\ Closed /\ Quiet /\ NoTransactionCut /\ StopsForAReason
  BY DEF MoreAttempts, Announced, NotStarted, Closed, Quiet, NoTransactionCut, StopsForAReason, Idle
<1> QED BY <1>1, <1>2 DEF IInv

\* The main goroutine until it serves.
LEMMA ConnectInv ==
  ASSUME IInv, Startup
  PROVE  IInv'
<1> USE LifecycleAssumption DEF LifecycleAssumption, IInv, TypeOK, MoreAttempts, Announced, NotStarted, Closed, Quiet, NoTransactionCut,
        StopsForAReason, Idle, Holders, Goto, main, http, debug, users
<1>1. CASE Connect        BY <1>1 DEF Connect
<1>2. CASE ConnectFails   BY <1>2 DEF ConnectFails
<1>3. CASE ConnectAgain
  <2>1. tries < Retries
    BY <1>3 DEF ConnectAgain
  <2> QED BY <1>3, <2>1 DEF ConnectAgain
<1>4. CASE ConnectAbandoned  BY <1>4 DEF ConnectAbandoned
<1>5. CASE Start          BY <1>5 DEF Start
<1>6. CASE InvokeFails    BY <1>6 DEF InvokeFails
<1>7. ASSUME NEW withPprof \in BOOLEAN, NEW positive \in BOOLEAN, Configure(withPprof, positive)
      PROVE  IInv'
  BY <1>7 DEF Configure
<1> QED BY <1>1, <1>2, <1>3, <1>4, <1>5, <1>6, <1>7 DEF Startup

\* The pprof server's end is taken from its channel, and nothing else changes.
LEMMA PprofStopType ==
  ASSUME TypeOK, PprofStopSeen
  PROVE  TypeOK'
<1>1. pprofCh' = Nothing /\ watching' = FALSE
  BY DEF PprofStopSeen
<1>2. /\ pc' = pc /\ tries' = tries /\ ctxDone' = ctxDone /\ down' = down
      /\ server' = server /\ serverCh' = serverCh /\ pprof' = pprof
      /\ req' = req /\ loop' = loop /\ ticks' = ticks /\ pool' = pool /\ timedOut' = timedOut
  BY DEF PprofStopSeen, main, http, users
<1>3. /\ ctxDone' \in BOOLEAN /\ down' \in BOOLEAN
      /\ watching' \in BOOLEAN /\ timedOut' \in BOOLEAN /\ ticks' \in BOOLEAN
  BY <1>1, <1>2, Zenon DEF TypeOK
<1>4. pprofCh' \in {Nothing, "nil", "err"} /\ serverCh' \in {Nothing, "nil", "err"}
  BY <1>1, <1>2, Zenon DEF TypeOK
<1>5. /\ pc' \in {"config", "connect", "backoff", "start", "wait", "shutdown", "drain",
                  "pprof", "close", "pool", "exited"}
      /\ tries' \in 1..Retries
      /\ server' \in {"new", "starting", "listening", "stopped"}
      /\ pprof' \in {"none", "new", "running", "stopped"}
      /\ req' \in [Reqs -> {"none", "read", "tx", "write"}]
      /\ loop' \in {"new", "starting", "waiting", "tx", "stopped"}
      /\ pool' \in {"none", "open", "closing", "closed"}
  BY <1>2, Zenon DEF TypeOK
<1> QED BY <1>3, <1>4, <1>5, Zenon DEF TypeOK

\* The main goroutine from the stop to the exit.
LEMMA ShutdownInv ==
  ASSUME IInv, Stop
  PROVE  IInv'
<1> USE DEF IInv, TypeOK, MoreAttempts, Announced, NotStarted, Closed, Quiet, NoTransactionCut, StopsForAReason,
        Idle, Holders, Goto, main, http, debug, users, Nothing
<1>1. CASE SignalSeen        BY <1>1 DEF SignalSeen
<1>2. CASE ServerStopSeen    BY <1>2 DEF ServerStopSeen
<1>3. CASE PprofStopSeen
  <2> USE <1>3 DEF PprofStopSeen
  <2>1. TypeOK'
    BY PprofStopType
  <2>2. /\ MoreAttempts' /\ Announced' /\ Closed' /\ StopsForAReason'
        /\ NotStarted' /\ Quiet' /\ NoTransactionCut'
    OBVIOUS
  <2> QED BY <2>1, <2>2
<1>4. CASE Shutdown          BY <1>4 DEF Shutdown
<1>5. CASE Drained           BY <1>5 DEF Drained
<1>6. CASE ShutdownTimesOut  BY <1>6 DEF ShutdownTimesOut
<1>7. CASE ShutdownPprof     BY <1>7 DEF ShutdownPprof
<1>8. CASE CloseResources    BY <1>8 DEF CloseResources
<1>9. CASE PoolClosed        BY <1>9 DEF PoolClosed
<1> QED BY <1>1, <1>2, <1>3, <1>4, <1>5, <1>6, <1>7, <1>8, <1>9 DEF Stop

\* A server that has stopped stays so, and one that is new has not been started.
LEMMA ServersInv ==
  ASSUME IInv, Signal \/ Listen \/ ServerStops \/ PprofStops
  PROVE  IInv'
<1> USE DEF IInv, TypeOK, MoreAttempts, Announced, NotStarted, Closed, Quiet, NoTransactionCut,
        StopsForAReason, Idle, Holders, main, http, debug, users, Nothing, Alive
<1>1. CASE Signal       BY <1>1 DEF Signal
<1>2. CASE Listen       BY <1>2 DEF Listen
<1>3. CASE ServerStops  BY <1>3 DEF ServerStops
<1>4. CASE PprofStops   BY <1>4 DEF PprofStops
<1> QED BY <1>1, <1>2, <1>3, <1>4

\* A request moves only while the process runs, and begins only before the shutdown.
LEMMA RequestInv ==
  ASSUME IInv, NEW r \in Reqs, NEW from, NEW to \in {"read", "tx", "write", "none"},
         Move(r, from, to), from = "none" => server = "listening" /\ ~down
  PROVE  IInv'
<1> USE DEF IInv, Move, Alive, main, http, debug
<1>1. TypeOK'
  BY DEF TypeOK
<1>2. NotStarted'
  <2> SUFFICES ASSUME pc \in {"config", "connect", "backoff", "start"} PROVE FALSE
    BY DEF NotStarted
  <2> QED BY DEF NotStarted, Idle
<1>3. Quiet'
  <2> SUFFICES ASSUME pc \in {"pprof", "close", "pool"}, ~timedOut PROVE FALSE
    BY DEF Quiet
  <2> QED BY DEF Quiet, Closed, Idle
<1>4. MoreAttempts' /\ Announced' /\ Closed' /\ NoTransactionCut' /\ StopsForAReason'
  BY DEF MoreAttempts, Announced, Closed, NoTransactionCut, StopsForAReason
<1> QED BY <1>1, <1>2, <1>3, <1>4

LEMMA LoopInv ==
  ASSUME IInv, NewTicker \/ TickerPanics \/ ReleaseBegins \/ ReleaseEnds \/ LoopStops
  PROVE  IInv'
  BY DEF IInv, TypeOK, MoreAttempts, Announced, NotStarted, Closed, Quiet, NoTransactionCut, StopsForAReason, Idle,
     LoopTo, Alive, Goto, main, http, debug, users, NewTicker, TickerPanics, ReleaseBegins,
     ReleaseEnds, LoopStops

LEMMA NextInv ==
  ASSUME IInv, [Next]_vars
  PROVE  IInv'
<1>1. CASE Main
  BY <1>1, ConnectInv, ShutdownInv DEF Main
<1>2. CASE Signal \/ Listen \/ ServerStops \/ PprofStops
  BY <1>2, ServersInv
<1>3. ASSUME NEW r \in Reqs, Accept(r) \/ Acquire(r) \/ Serve(r)
      PROVE  IInv'
  BY <1>3, RequestInv DEF Accept, Acquire, Serve, NoTransaction, EndTransaction, Answer
<1>4. CASE NewTicker \/ TickerPanics \/ ReleaseBegins \/ ReleaseEnds \/ LoopStops
  BY <1>4, LoopInv
<1>5. CASE UNCHANGED vars
  BY <1>5 DEF vars, main, http, debug, users, IInv, TypeOK, MoreAttempts, Announced, NotStarted, Closed, Quiet,
     NoTransactionCut, StopsForAReason, Idle, Holders
<1> QED BY <1>1, <1>2, <1>3, <1>4, <1>5 DEF Next, Others

THEOREM Invariance == Spec => []IInv
<1>1. Init => IInv
  BY InitIInv
<1>2. IInv /\ [Next]_vars => IInv'
  BY NextInv
<1> QED BY <1>1, <1>2, PTL DEF Spec
-----------------------------------------------------------------------------
(* A process that is built by its container lives this life.               *)

\* What the container does is a step of the life cycle or none.
LEMMA StepRefines == [ProcessNext]_processVars => [Next]_vars
<1> SUFFICES ASSUME [ProcessNext]_processVars PROVE [Next]_vars
  OBVIOUS
<1>1. CASE Resolution        BY <1>1 DEF Resolution
<1>2. CASE LoadReturns
  <2>1. PICK env \in Environments :
          Configure(Load(env).Pprof, Load(env).AutoReleaseInterval > 0)
    BY <1>2 DEF LoadReturns
  <2>2. Load(env).Pprof \in BOOLEAN /\ (Load(env).AutoReleaseInterval > 0) \in BOOLEAN
    BY DEF Load, IsTrue
  <2> QED BY <2>1, <2>2 DEF Next, Main, Startup
<1>3. CASE LoadRefuses       BY <1>3 DEF LoadRefuses, Next, Main, Startup
<1>4. CASE PoolReturns       BY <1>4 DEF PoolReturns, Next, Main, Startup
<1>5. CASE PoolFails         BY <1>5 DEF PoolFails, Next, Main, Startup
<1>6. CASE InvocationFails   BY <1>6 DEF InvocationFails, Next, Main, Startup
<1>7. CASE Invoked           BY <1>7 DEF Invoked, Next, Main, Startup
<1>8. CASE Lives             BY <1>8 DEF Lives, Next, Main
<1>9. CASE UNCHANGED processVars  BY <1>9 DEF processVars
<1> QED BY <1>1, <1>2, <1>3, <1>4, <1>5, <1>6, <1>7, <1>8, <1>9 DEF ProcessNext, Begins

(* The composed process implements the life cycle: container and           *)
(* configuration only decide whether and with what it begins.              *)
THEOREM ProcessLives == ProcessSpec => Spec
<1>1. ProcessInit => Init
  BY DEF ProcessInit
<1> QED BY <1>1, StepRefines, PTL DEF ProcessSpec, Spec

THEOREM ProcessInvariance == ProcessSpec => []IInv
  BY ProcessLives, Invariance, PTL

\* What an accepted environment says, for each group of settings.
LEMMA AcceptedFits ==
  ASSUME NEW env, Accepts(env)
  PROVE  Fits(Load(env))
<1>1. 0 < Load(env).Port /\ Load(env).Port <= 65535
  BY DEF Accepts, PortParses, Load
<1>2. LET s == Load(env).OrdersGateway IN
      /\ s.MaxAttempts \in 1..10
      /\ 0 < s.BaseDelay /\ s.BaseDelay <= s.MaxDelay
  BY DEF Accepts, OrdersGatewayParses, InRange, Load
<1>3. LET s == Load(env).RateLimit IN
      s.Rate > 0 /\ s.Burst >= 1 /\ s.TTL >= 0 /\ s.MaxBuckets >= 0
  <2>1. CASE IsTrue(env, "RATE_LIMIT_ENABLED")
    BY <2>1 DEF Accepts, RateLimitParses, InRange, Load, RateLimit
  <2>2. CASE ~IsTrue(env, "RATE_LIMIT_ENABLED")
    <3>1. /\ Default["RATE_LIMIT_RATE"] = 5 /\ Default["RATE_LIMIT_BURST"] = 5
          /\ Default["RATE_LIMIT_TTL"] = 600000 /\ Default["RATE_LIMIT_MAX_BUCKETS"] = 0
      BY DEF Default, Keys
    <3> QED BY <2>2, <3>1 DEF Load, RateLimit
  <2> QED BY <2>1, <2>2
<1> QED BY <1>1, <1>2, <1>3 DEF Fits

(* Any environment that Load accepts gives settings that fit, and nothing  *)
(* changes them afterwards.                                                *)
THEOREM AcceptedSettingsFit == ProcessSpec => []SettingsFit
<1>1. ProcessInit => SettingsFit
  BY DEF ProcessInit, SettingsFit
<1>2. SettingsFit /\ [ProcessNext]_processVars => SettingsFit'
  <2> SUFFICES ASSUME SettingsFit, [ProcessNext]_processVars PROVE SettingsFit'
    OBVIOUS
  <2>1. CASE LoadReturns
    <3>1. PICK env \in Environments : Accepts(env) /\ loaded' = {Load(env)}
      BY <2>1 DEF LoadReturns
    <3> QED BY <3>1, AcceptedFits DEF SettingsFit
  <2>2. CASE ~LoadReturns
    <3>1. loaded' = loaded
      BY <2>2 DEF ProcessNext, Begins, Lives, Resolution, LoadRefuses, PoolReturns, PoolFails,
         InvocationFails, Invoked, processVars
    <3> QED BY <3>1 DEF SettingsFit
  <2> QED BY <2>1, <2>2
<1> QED BY <1>1, <1>2, PTL DEF ProcessSpec

(* A process that finds nothing in its environment starts. *)
THEOREM DefaultsAccepted == Accepts(Plain)
<1>1. \A k \in Keys : EnvOrDefault(Plain, k) = Number(Default[k])
  BY DEF EnvOrDefault, Getenv, Plain, Unset, Blank, Word
<1>2. \A k \in Keys : IsNumber(Plain, k) /\ Value(Plain, k) = Default[k]
  BY <1>1 DEF IsNumber, Value, Number
<1>3. /\ "PORT" \in Keys /\ Default["PORT"] = 8080
      /\ "POSTGRES_PORT" \in Keys /\ "DELIVERY_AUTO_RELEASE_INTERVAL" \in Keys
      /\ "ORDER_GATEWAY_MAX_ATTEMPTS" \in Keys /\ Default["ORDER_GATEWAY_MAX_ATTEMPTS"] = 4
      /\ "ORDER_GATEWAY_BASE_DELAY" \in Keys /\ Default["ORDER_GATEWAY_BASE_DELAY"] = 150
      /\ "ORDER_GATEWAY_MAX_DELAY" \in Keys /\ Default["ORDER_GATEWAY_MAX_DELAY"] = 200
  BY DEF Keys, Default
<1>4. /\ "KAFKA_BROKERS" \in Keys /\ Default["KAFKA_BROKERS"] = 1
      /\ "PPROF_ENABLED" \in Keys /\ Default["PPROF_ENABLED"] = 0
      /\ "RATE_LIMIT_ENABLED" \in Keys /\ Default["RATE_LIMIT_ENABLED"] = 1
      /\ "RATE_LIMIT_RATE" \in Keys /\ Default["RATE_LIMIT_RATE"] = 5
      /\ "RATE_LIMIT_BURST" \in Keys /\ Default["RATE_LIMIT_BURST"] = 5
      /\ "RATE_LIMIT_TTL" \in Keys /\ Default["RATE_LIMIT_TTL"] = 600000
      /\ "RATE_LIMIT_MAX_BUCKETS" \in Keys /\ Default["RATE_LIMIT_MAX_BUCKETS"] = 0
  BY DEF Keys, Default
<1>5. Plain.parsed /\ Plain.flag = Unset /\ Plain.secret = "none"
  BY DEF Plain
<1>6. PortParses(Plain)
  BY <1>2, <1>3, <1>5 DEF PortParses, Port, Unset, Word
<1>7. DBParses(Plain) /\ DeliveryParses(Plain) /\ OrdersGatewayParses(Plain)
  BY <1>2, <1>3, <1>5 DEF DBParses, DeliveryParses, OrdersGatewayParses, InRange
<1>8. KafkaParses(Plain) /\ PprofParses(Plain) /\ RateLimitParses(Plain)
  BY <1>2, <1>4 DEF KafkaParses, PprofParses, RateLimitParses, InRange, IsBool
<1> QED BY <1>5, <1>6, <1>7, <1>8 DEF Accepts

(* The variables of the process keep their types. *)
THEOREM TypeCorrect == ProcessSpec => []TypeOK
<1>1. IInv => TypeOK
  BY DEF IInv
<1> QED BY <1>1, ProcessInvariance, PTL

(* No transaction is cut off by the exit of the process. *)
THEOREM ExitIsClean == ProcessSpec => []NoTransactionCut
<1>1. IInv => NoTransactionCut
  BY DEF IInv
<1> QED BY <1>1, ProcessInvariance, PTL

(* Requests that were accepted are answered, if the shutdown has the time. *)
THEOREM ShutdownIsGraceful == ProcessSpec => []AcceptedIsAnswered
<1>1. IInv => AcceptedIsAnswered
  BY DEF IInv, Quiet, AcceptedIsAnswered
<1> QED BY <1>1, ProcessInvariance, PTL

(* The pprof server alone never stops the process. *)
THEOREM PprofIsHarmless == ProcessSpec => []StopsForAReason
<1>1. IInv => StopsForAReason
  BY DEF IInv
<1> QED BY <1>1, ProcessInvariance, PTL
-----------------------------------------------------------------------------
(***************************************************************************)
(* The container of the service finds a constructor for every parameter.   *)
(***************************************************************************)
\* The values that the constructors of the service need of each other.
Needed ==
    {"Context", "Logger", "Config", "RateCounter", "Interval", "Pool", "CourierRepo",
     "DeliveryRepo", "Duration", "CourierService", "TimeFactory", "DeliveryService",
     "Clock", "Limiter", "RateLimitMiddleware", "Handlers", "CourierUsecase", "CourierHandler",
     "DeliveryUsecase", "DeliveryHandler", "HTTPHandler", "Server", "PprofServer"}

\* Each has its constructor.
LEMMA NeededIsGiven ==
    ASSUME proc = "service", NEW t \in Needed
    PROVE  Providers(t) # {}
<1> SUFFICES \E f \in Provided : t \in f.gives
  BY DEF Providers
<1>1. CASE t \in {"Context", "Logger", "Config", "RateCounter", "Interval"}
  <2>1. \E f \in registerCore : t \in f.gives
    BY <1>1 DEF registerCore, Fn
  <2> QED BY <2>1 DEF Provided
<1>2. CASE t = "Pool"
  <2>1. \E f \in registerDb : t \in f.gives
    BY <1>2 DEF registerDb, Fn
  <2> QED BY <2>1 DEF Provided
<1>3. CASE t \in {"CourierRepo", "DeliveryRepo", "Duration", "CourierService", "TimeFactory",
                 "DeliveryService"}
  <2>1. \E f \in registerDomainServices : t \in f.gives
    BY <1>3 DEF registerDomainServices, Fn
  <2> QED BY <2>1 DEF Provided
<1>4. CASE t \in {"Clock", "Limiter", "RateLimitMiddleware"}
  <2>1. \E f \in RateLimiting : t \in f.gives
    BY <1>4 DEF RateLimiting, Fn
  <2> QED BY <2>1 DEF Provided, registerHTTP
<1>5. CASE t \in {"Handlers", "CourierUsecase", "CourierHandler", "DeliveryUsecase",
                 "DeliveryHandler", "HTTPHandler", "Server", "PprofServer"}
  <2>1. /\ Fn({"Handlers"}, <<"Logger">>) \in registerHTTP
        /\ Fn({"CourierUsecase"}, <<"CourierService">>) \in registerHTTP
        /\ Fn({"CourierHandler"}, <<"Logger", "CourierUsecase">>) \in registerHTTP
        /\ Fn({"DeliveryUsecase"}, <<"DeliveryService">>) \in registerHTTP
        /\ Fn({"DeliveryHandler"}, <<"Logger", "DeliveryUsecase">>) \in registerHTTP
        /\ Fn({"HTTPHandler"}, <<"Handlers", "CourierHandler", "DeliveryHandler",
                                 "RateLimitMiddleware">>) \in registerHTTP
        /\ Fn({"Server", "PprofServer"}, <<"Config", "HTTPHandler">>) \in registerHTTP
    BY DEF registerHTTP
  <2>2. \A gives, needs : Fn(gives, needs).gives = gives
    BY DEF Fn
  <2>3. \A f \in registerHTTP : f \in Provided
    BY DEF Provided
  <2> QED BY <1>5, <2>1, <2>2, <2>3
<1> QED BY <1>1, <1>2, <1>3, <1>4, <1>5 DEF Needed

NeedsOnly(f) == \A i \in DOMAIN f.needs : f.needs[i] \in Needed

LEMMA ServiceNeeds ==
    ASSUME proc = "service", NEW f \in Provided \cup {Target}
    PROVE  NeedsOnly(f)
<1>1. CASE f \in registerCore
  BY <1>1 DEF registerCore, Fn, NeedsOnly, Needed
<1>2. CASE f \in registerDb
  BY <1>2 DEF registerDb, Fn, NeedsOnly, Needed
<1>3. CASE f \in registerDomainServices
  BY <1>3 DEF registerDomainServices, Fn, NeedsOnly, Needed
<1>4. CASE f \in RateLimiting
  BY <1>4 DEF RateLimiting, Fn, NeedsOnly, Needed
<1>5. CASE f \in registerHTTP \ RateLimiting
  BY <1>5 DEF registerHTTP, Fn, NeedsOnly, Needed
<1>6. CASE f = Target
  BY <1>6 DEF Target, Fn, NeedsOnly, Needed
<1> QED BY <1>1, <1>2, <1>3, <1>4, <1>5, <1>6 DEF Provided

LEMMA NothingLacks ==
    ASSUME proc = "service", NEW f \in Provided \cup {Target}
    PROVE  Lacking(f) = {}
BY ServiceNeeds, NeededIsGiven DEF NeedsOnly, Lacking

\* The container works on its own constructors and the function invoked.
Resolving ==
    /\ stack \in Seq(Provided \cup {Target})
    /\ ServiceResolves

LEMMA ResolvingNext == Resolving /\ [ProcessNext]_processVars => Resolving'
<1> SUFFICES ASSUME Resolving, [ProcessNext]_processVars PROVE Resolving'
  OBVIOUS
<1> DEFINE Functions == Provided \cup {Target}
<1>1. UNCHANGED proc
  BY DEF ProcessNext, Begins, Lives, Resolution, LoadReturns, LoadRefuses, PoolReturns, PoolFails,
     InvocationFails, Invoked, Resolve, Construct, Unresolved, Fails, container, processVars
<1>2. Functions' = Functions
  BY <1>1 DEF Provided, Target
<1>3. CASE UNCHANGED <<stack, failure>>
  BY <1>1, <1>2, <1>3 DEF Resolving, ServiceResolves
<1>4. CASE Fails("error")
  BY <1>1, <1>2, <1>4, EmptySeq DEF Fails, Resolving, ServiceResolves
<1>5. CASE Unresolved
  <2>1. proc # "service"
    <3>1. Head(stack) \in Functions
      BY <1>5 DEF Unresolved, Resolving
    <3> QED BY <1>5, <3>1, NothingLacks DEF Unresolved
  <2> QED BY <1>1, <1>2, <1>5, <2>1, EmptySeq DEF Unresolved, Fails, Resolving, ServiceResolves
<1>6. CASE Resolve
  <2>1. PICK f \in Functions : stack' = <<f>> \o stack
    BY <1>6 DEF Resolve, Providers
  <2>2. stack' \in Seq(Functions)
    <3> HIDE DEF Functions
    <3>1. <<f>> \in Seq(Functions)
      OBVIOUS
    <3>2. stack \in Seq(Functions)
      BY DEF Resolving, Functions
    <3> QED BY <2>1, <3>1, <3>2, ConcatProperties
  <2> QED BY <1>1, <1>2, <1>6, <2>2 DEF Resolve, Resolving, ServiceResolves
<1>7. CASE Construct
  <2>1. stack # <<>> /\ stack' = Tail(stack) /\ UNCHANGED failure
    BY <1>7 DEF Construct, Running
  <2>2. stack' \in Seq(Functions)
    <3> HIDE DEF Functions
    <3>1. stack \in Seq(Functions)
      BY DEF Resolving, Functions
    <3> QED BY <2>1, <3>1, HeadTailProperties
  <2> QED BY <1>1, <1>2, <2>1, <2>2 DEF Resolving, ServiceResolves
<1> QED BY <1>3, <1>4, <1>5, <1>6, <1>7 DEF ProcessNext, Begins, Lives, Resolution, LoadReturns,
    LoadRefuses, PoolReturns, PoolFails, InvocationFails, Invoked, container, processVars

(* Whatever fails when service-courier begins, no parameter lacks its      *)
(* constructor.                                                            *)
THEOREM ServiceFindsAll == ProcessSpec => []ServiceResolves
<1>1. ProcessInit => Resolving
  <2> SUFFICES ASSUME ProcessInit PROVE Resolving
    OBVIOUS
  <2>1. stack = <<Target>> /\ failure = "none"
    BY DEF ProcessInit, ContainerInit
  <2>2. Target \in Provided \cup {Target}
    OBVIOUS
  <2> HIDE DEF Target
  <2> QED BY <2>1, <2>2 DEF Resolving, ServiceResolves
<1>2. Resolving /\ [ProcessNext]_processVars => Resolving'
  BY ResolvingNext
<1>3. Resolving => ServiceResolves
  BY DEF Resolving
<1> QED BY <1>1, <1>2, <1>3, PTL DEF ProcessSpec
=============================================================================
