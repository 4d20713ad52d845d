------------------------------- MODULE Config -------------------------------
(***************************************************************************)
(* config.Load: from the environment, the .env file and the flags to the   *)
(* settings of a process, or to its refusal.                               *)
(*                                                                         *)
(* A text is told apart by what the parsers make of it: unset, blank, a    *)
(* number (a duration in milliseconds, the Booleans 1 and 0, how many      *)
(* brokers a list names), or something that is none.  Names, addresses and *)
(* passwords are never refused and left out.                               *)
(***************************************************************************)
EXTENDS Integers

Number(n) == [kind |-> "number", value |-> n]
Word(k) == [kind |-> k, value |-> 0]
Unset == Word("unset")
Blank == Word("blank")
Garbage == Word("garbage")

Keys == {"PORT", "POSTGRES_PORT", "DELIVERY_AUTO_RELEASE_INTERVAL",
         "ORDER_GATEWAY_MAX_ATTEMPTS", "ORDER_GATEWAY_BASE_DELAY", "ORDER_GATEWAY_MAX_DELAY",
         "KAFKA_BROKERS", "PPROF_ENABLED", "RATE_LIMIT_ENABLED", "RATE_LIMIT_RATE",
         "RATE_LIMIT_BURST", "RATE_LIMIT_TTL", "RATE_LIMIT_MAX_BUCKETS"}

\* Nothing is set, there is neither a .env nor a file with the password.
Plain == [os |-> [k \in Keys |-> Unset], file |-> [k \in Keys |-> Unset],
          parsed |-> TRUE, flag |-> Unset, secret |-> "none"]

\* The defaults.
Default ==
    [k \in Keys |->
        CASE k = "PORT" -> 8080
          [] k = "POSTGRES_PORT" -> 5432
          [] k = "DELIVERY_AUTO_RELEASE_INTERVAL" -> 10000
          [] k = "ORDER_GATEWAY_MAX_ATTEMPTS" -> 4
          [] k = "ORDER_GATEWAY_BASE_DELAY" -> 150
          [] k = "ORDER_GATEWAY_MAX_DELAY" -> 200
          [] k \in {"KAFKA_BROKERS", "RATE_LIMIT_ENABLED"} -> 1
          [] k \in {"RATE_LIMIT_RATE", "RATE_LIMIT_BURST"} -> 5
          [] k = "RATE_LIMIT_TTL" -> 600000
          [] OTHER -> 0]
-----------------------------------------------------------------------------
\* os.Getenv after godotenv.Load, which leaves alone what is set, be it blank.
Getenv(env, k) == IF env.os[k] # Unset THEN env.os[k] ELSE env.file[k]

EnvOrDefault(env, k) ==
    IF Getenv(env, k) \in {Unset, Blank} THEN Number(Default[k]) ELSE Getenv(env, k)

IsNumber(env, k) == EnvOrDefault(env, k).kind = "number"
Value(env, k) == EnvOrDefault(env, k).value
InRange(env, k, S) == IsNumber(env, k) /\ Value(env, k) \in S
IsBool(env, k) == InRange(env, k, {0, 1})
IsTrue(env, k) == Value(env, k) = 1

\* A PORT that is no number is ignored; the flag goes first.
Port(env) ==
    IF env.flag # Unset THEN env.flag.value
    ELSE IF IsNumber(env, "PORT") THEN Value(env, "PORT") ELSE Default["PORT"]

PortParses(env) == env.flag.kind \in {"unset", "number"} /\ 0 < Port(env) /\ Port(env) <= 65535

\* The password has a default: a file that is not there is no matter, one that
\* cannot be read is.
DBParses(env) == env.secret # "unreadable" /\ IsNumber(env, "POSTGRES_PORT")

\* Any duration: ReleaseInterval may be zero or negative.
DeliveryParses(env) == IsNumber(env, "DELIVERY_AUTO_RELEASE_INTERVAL")

\* Mutant: the two delays are not compared.
OrdersGatewayParsesEach(env) ==
    /\ InRange(env, "ORDER_GATEWAY_MAX_ATTEMPTS", 1..10)
    /\ InRange(env, "ORDER_GATEWAY_BASE_DELAY", Nat \ {0})
    /\ InRange(env, "ORDER_GATEWAY_MAX_DELAY", Nat \ {0})

\* A base delay above the default maximum needs a maximum of its own.
OrdersGatewayParses(env) ==
    /\ InRange(env, "ORDER_GATEWAY_MAX_ATTEMPTS", 1..10)
    /\ InRange(env, "ORDER_GATEWAY_BASE_DELAY", Nat \ {0})
    /\ InRange(env, "ORDER_GATEWAY_MAX_DELAY", Nat \ {0})
    /\ Value(env, "ORDER_GATEWAY_MAX_DELAY") >= Value(env, "ORDER_GATEWAY_BASE_DELAY")

\* At least one broker between the commas.
KafkaParses(env) == InRange(env, "KAFKA_BROKERS", Nat \ {0})

PprofParses(env) == IsBool(env, "PPROF_ENABLED")

RateLimitParses(env) ==
    /\ IsBool(env, "RATE_LIMIT_ENABLED")
    /\ IsTrue(env, "RATE_LIMIT_ENABLED") =>
          /\ InRange(env, "RATE_LIMIT_RATE", Nat \ {0})
          /\ InRange(env, "RATE_LIMIT_BURST", Nat \ {0})
          /\ InRange(env, "RATE_LIMIT_TTL", Nat)
          /\ InRange(env, "RATE_LIMIT_MAX_BUCKETS", Nat)
-----------------------------------------------------------------------------
\* Load refuses the environment if one of its parts does ...
Accepts(env) ==
    /\ env.parsed
    /\ PortParses(env) /\ DBParses(env) /\ DeliveryParses(env)
    /\ OrdersGatewayParses(env) /\ KafkaParses(env) /\ PprofParses(env) /\ RateLimitParses(env)

\* The limits of the limiter; one that is off gets the defaults.
RateLimit(env) ==
    LET on == IsTrue(env, "RATE_LIMIT_ENABLED")
        Of(k) == IF on THEN Value(env, k) ELSE Default[k]
    IN [Enabled |-> on, Rate |-> Of("RATE_LIMIT_RATE"), Burst |-> Of("RATE_LIMIT_BURST"),
        TTL |-> Of("RATE_LIMIT_TTL"), MaxBuckets |-> Of("RATE_LIMIT_MAX_BUCKETS")]

\* ... and else gives what the parts of the process are built from.
Load(env) ==
    [Port |-> Port(env),
     AutoReleaseInterval |-> Value(env, "DELIVERY_AUTO_RELEASE_INTERVAL"),
     OrdersGateway |-> [MaxAttempts |-> Value(env, "ORDER_GATEWAY_MAX_ATTEMPTS"),
                        BaseDelay |-> Value(env, "ORDER_GATEWAY_BASE_DELAY"),
                        MaxDelay |-> Value(env, "ORDER_GATEWAY_MAX_DELAY")],
     Pprof |-> IsTrue(env, "PPROF_ENABLED"),
     RateLimit |-> RateLimit(env)]
=============================================================================
