----------------------------- MODULE MCProcess -----------------------------
(* Instances of Process for TLC. *)
EXTENDS Process

CONSTANTS r1, r2

OS(k, t) == [Plain EXCEPT !.os[k] = t]
File(k, t) == [Plain EXCEPT !.file[k] = t]

\* What is varied, one variable at a time ...
Values(k) ==
    CASE k = "PORT" -> {0, 9000}
      [] k = "DELIVERY_AUTO_RELEASE_INTERVAL" -> {-5, 0, 5000}
      [] k = "ORDER_GATEWAY_MAX_ATTEMPTS" -> {0, 10, 11}
      [] k = "ORDER_GATEWAY_BASE_DELAY" -> {0, 200, 201}
      [] k = "ORDER_GATEWAY_MAX_DELAY" -> {149, 150}
      [] OTHER -> {-1, 0, 1}

SomeEnvironments ==
    {Plain}
    \cup UNION {{OS(k, t) : t \in {Blank, Garbage} \cup {Number(n) : n \in Values(k)}} : k \in Keys}
    \* ... and pairs that meet: environment and .env, base and maximal delay, the
    \* limiter off with a value it would refuse, PORT and the flag, the password's file.
    \cup {[File("PPROF_ENABLED", Number(1)) EXCEPT !.os["PPROF_ENABLED"] = t] : t \in {Unset, Blank, Number(0)}}
    \cup {[OS("ORDER_GATEWAY_BASE_DELAY", Number(300)) EXCEPT !.file["ORDER_GATEWAY_MAX_DELAY"] = Number(n)] : n \in {299, 300}}
    \cup {[OS("RATE_LIMIT_ENABLED", Number(0)) EXCEPT !.os["RATE_LIMIT_RATE"] = Garbage]}
    \cup {[OS("PORT", Number(0)) EXCEPT !.flag = t] : t \in {Number(9001), Number(65536), Garbage}}
    \cup {[Plain EXCEPT !.secret = s] : s \in {"missing", "readable", "unreadable"}}
    \cup {[Plain EXCEPT !.parsed = FALSE]}
=============================================================================
