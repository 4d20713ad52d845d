----------------------------- MODULE Lifecycle -----------------------------
(***************************************************************************)
(* The life of process service-courier (internal/app/runner.go, helpers.go)*)
(* from its configuration to its exit: the main goroutine, the HTTP and    *)
(* pprof servers, the requests under way, the auto-release loop, which     *)
(* nobody waits for, and the pool of connections they share.               *)
(***************************************************************************)
EXTENDS Integers, FiniteSets

CONSTANTS
    Reqs,      \* requests that can be under way
    Loop,      \* the auto-release goroutine, as a holder of a connection
    Retries,   \* attempts to connect
    MaxConns   \* size of the pool

ASSUME LifecycleAssumption ==
    /\ Loop \notin Reqs /\ IsFiniteSet(Reqs)
    /\ Retries \in Nat \ {0} /\ MaxConns \in Nat \ {0}

VARIABLES
    pc, tries,         \* the main goroutine, and its attempt to connect
    ctxDone,           \* SIGINT or SIGTERM has come
    server, serverCh,  \* the goroutine of ListenAndServe and its channel
    pprof, pprofCh, watching,  \* ... of the pprof server; main selects on it
    down,              \* Shutdown of the HTTP server has been called
    req, loop,         \* the other users of the pool
    ticks,             \* the configured release interval is positive
    pool,
    timedOut           \* Shutdown gave up waiting for requests

main == <<pc, tries>>
http == <<server, serverCh, down>>
debug == <<pprof, pprofCh, watching>>
users == <<req, loop, ticks>>
vars == <<main, ctxDone, http, debug, users, pool, timedOut>>

Nothing == "empty"   \* an empty channel

TypeOK ==
    /\ pc \in {"config", "connect", "backoff", "start", "wait", "shutdown", "drain",
               "pprof", "close", "pool", "exited"}
    /\ tries \in 1..Retries
    /\ ctxDone \in BOOLEAN /\ down \in BOOLEAN
    /\ watching \in BOOLEAN /\ timedOut \in BOOLEAN /\ ticks \in BOOLEAN
    /\ server \in {"new", "starting", "listening", "stopped"}
    /\ pprof \in {"none", "new", "running", "stopped"}
    /\ serverCh \in {Nothing, "nil", "err"} /\ pprofCh \in {Nothing, "nil", "err"}
    /\ req \in [Reqs -> {"none", "read", "tx", "write"}]
    /\ loop \in {"new", "starting", "waiting", "tx", "stopped"}
    /\ pool \in {"none", "open", "closing", "closed"}

Init ==
    /\ pc = "config" /\ tries = 1 /\ ctxDone = FALSE
    /\ server = "new" /\ serverCh = Nothing /\ down = FALSE
    /\ pprof = "none" /\ pprofCh = Nothing /\ watching = FALSE
    /\ req = [r \in Reqs |-> "none"] /\ loop = "new" /\ ticks = TRUE
    /\ pool = "none" /\ timedOut = FALSE

Alive == pc # "exited"
Goto(s) == pc' = s /\ UNCHANGED tries

\* Who holds a connection of the pool.
Holders == {r \in Reqs : req[r] = "tx"} \cup (IF loop = "tx" THEN {Loop} ELSE {})
-----------------------------------------------------------------------------
\* What the configuration says: is there a pprof server, is the interval of the
\* auto-release positive?
Configure(withPprof, positive) ==
    /\ pc = "config" /\ Goto("connect")
    /\ pprof' = IF withPprof THEN "new" ELSE "none"
    /\ ticks' = positive
    /\ UNCHANGED <<ctxDone, http, pprofCh, watching, req, loop, pool, timedOut>>

\* A part of the process cannot be built: the error is logged, and the process
\* ends as it is.
InvokeFails ==
    /\ pc \in {"config", "connect", "start"} /\ Goto("exited")
    /\ UNCHANGED <<ctxDone, http, debug, users, pool, timedOut>>

(* connectDbWithRetry.                                                     *)

Connect ==
    /\ pc = "connect"
    /\ pool' = "open" /\ Goto("start")
    /\ UNCHANGED <<ctxDone, http, debug, users, timedOut>>

\* Mutant: it waits after the last attempt too.
ConnectFailsAgain ==
    /\ pc = "connect"
    /\ IF tries <= Retries THEN Goto("backoff") ELSE Goto("exited")
    /\ UNCHANGED <<ctxDone, http, debug, users, pool, timedOut>>

\* The attempt fails, or its time-out or the signal ends it.
ConnectFails ==
    /\ pc = "connect"
    /\ IF tries < Retries THEN Goto("backoff") ELSE Goto("exited")
    /\ UNCHANGED <<ctxDone, http, debug, users, pool, timedOut>>

ConnectAgain ==
    /\ pc = "backoff"
    /\ pc' = "connect" /\ tries' = tries + 1
    /\ UNCHANGED <<ctxDone, http, debug, users, pool, timedOut>>

ConnectAbandoned ==
    /\ pc = "backoff" /\ ctxDone
    /\ Goto("exited")
    /\ UNCHANGED <<ctxDone, http, debug, users, pool, timedOut>>
-----------------------------------------------------------------------------
(* appRun.                                                                 *)

\* startAutoReleaseLoop, startServer, startOptionalPprofServer.
Start ==
    /\ pc = "start" /\ Goto("wait")
    /\ loop' = "starting" /\ server' = "starting"
    /\ pprof' = IF pprof = "new" THEN "running" ELSE pprof
    /\ watching' = (pprof = "new")
    /\ UNCHANGED <<ctxDone, serverCh, down, pprofCh, req, ticks, pool, timedOut>>

\* waitForShutdownAny, waitForShutdown.
SignalSeen ==
    /\ pc = "wait" /\ ctxDone
    /\ Goto("shutdown")
    /\ UNCHANGED <<ctxDone, http, debug, users, pool, timedOut>>

ServerStopSeen ==
    /\ pc = "wait" /\ serverCh # Nothing
    /\ serverCh' = Nothing /\ Goto("shutdown")
    /\ UNCHANGED <<ctxDone, server, down, debug, users, pool, timedOut>>

\* Mutant: the end of either server stops the process.
PprofStopsAll ==
    /\ pc = "wait" /\ watching /\ pprofCh # Nothing
    /\ pprofCh' = Nothing /\ watching' = FALSE /\ Goto("shutdown")
    /\ UNCHANGED <<ctxDone, http, pprof, users, pool, timedOut>>

\* The process goes on without its pprof server.
PprofStopSeen ==
    /\ pc = "wait" /\ watching /\ pprofCh # Nothing
    /\ pprofCh' = Nothing /\ watching' = FALSE
    /\ UNCHANGED <<main, ctxDone, http, pprof, users, pool, timedOut>>

\* gracefulShutdown: no more requests are accepted ...
Shutdown ==
    /\ pc = "shutdown"
    /\ down' = TRUE /\ Goto("drain")
    /\ UNCHANGED <<ctxDone, server, serverCh, debug, users, pool, timedOut>>

\* ... and those under way are waited for, fifteen seconds at most.
Idle == \A r \in Reqs : req[r] = "none"

\* Mutant: Close instead of Shutdown.
DrainedAtOnce ==
    /\ pc = "drain"
    /\ Goto("pprof")
    /\ UNCHANGED <<ctxDone, http, debug, users, pool, timedOut>>

Drained ==
    /\ pc = "drain" /\ Idle
    /\ Goto("pprof")
    /\ UNCHANGED <<ctxDone, http, debug, users, pool, timedOut>>

ShutdownTimesOut ==
    /\ pc = "drain" /\ ~Idle
    /\ timedOut' = TRUE /\ Goto("pprof")
    /\ UNCHANGED <<ctxDone, http, debug, users, pool>>

\* gracefulShutdownOptional.
ShutdownPprof ==
    /\ pc = "pprof" /\ Goto("close")
    /\ pprof' = IF pprof = "running" THEN "stopped" ELSE pprof
    /\ UNCHANGED <<ctxDone, http, pprofCh, watching, users, pool, timedOut>>

\* closeResources: the server's connections, then the pool, which gives out no
\* more of its own ...
CloseResources ==
    /\ pc = "close" /\ Goto("pool")
    /\ pool' = "closing"
    /\ UNCHANGED <<ctxDone, http, debug, users, timedOut>>

\* Mutant: the pool is not closed but left to the exit.
PoolLeft ==
    /\ pc = "pool"
    /\ pool' = "closed" /\ Goto("exited")
    /\ UNCHANGED <<ctxDone, http, debug, users, timedOut>>

\* ... and is closed when all have come back.
PoolClosed ==
    /\ pc = "pool" /\ Holders = {}
    /\ pool' = "closed" /\ Goto("exited")
    /\ UNCHANGED <<ctxDone, http, debug, users, timedOut>>
-----------------------------------------------------------------------------
Signal ==
    /\ Alive /\ ~ctxDone /\ ctxDone' = TRUE
    /\ UNCHANGED <<main, http, debug, users, pool, timedOut>>

(* ListenAndServe and its goroutine.                                       *)
Listen ==
    /\ Alive /\ server = "starting" /\ ~down
    /\ server' = "listening"
    /\ UNCHANGED <<main, ctxDone, serverCh, down, debug, users, pool, timedOut>>

\* Mutant: the error of ListenAndServe is logged and not sent.
ServerStopsUnseen ==
    /\ Alive /\ server \in {"starting", "listening"}
    /\ server' = "stopped"
    /\ UNCHANGED <<main, ctxDone, serverCh, down, debug, users, pool, timedOut>>

ServerStops ==
    /\ Alive /\ server \in {"starting", "listening"}
    /\ server' = "stopped"
    /\ serverCh' = IF down THEN "nil" ELSE "err"
    /\ UNCHANGED <<main, ctxDone, down, debug, users, pool, timedOut>>

PprofStops ==
    /\ Alive /\ pprof = "running"
    /\ pprof' = "stopped" /\ pprofCh' = "err"
    /\ UNCHANGED <<main, ctxDone, http, watching, users, pool, timedOut>>

(* A request: read, perhaps a transaction, and the answer.                 *)
Move(r, from, to) == /\ Alive /\ req[r] = from
                     /\ req' = [req EXCEPT ![r] = to]
                     /\ UNCHANGED <<main, ctxDone, http, debug, loop, ticks, pool, timedOut>>

Room == pool = "open" /\ Cardinality(Holders) < MaxConns

Accept(r) == server = "listening" /\ ~down /\ Move(r, "none", "read")
Acquire(r) == Room /\ Move(r, "read", "tx")
NoTransaction(r) == Move(r, "read", "write")
EndTransaction(r) == Move(r, "tx", "write")
Answer(r) == Move(r, "write", "none")

(* The auto-release loop.                                                  *)
LoopTo(from, to) == /\ Alive /\ loop = from /\ loop' = to
                    /\ UNCHANGED <<main, ctxDone, http, debug, req, ticks, pool, timedOut>>

\* NewTicker panics on an interval that is not positive, which ends the process.
NewTicker == ticks /\ LoopTo("starting", "waiting")

TickerPanics ==
    /\ Alive /\ loop = "starting" /\ ~ticks /\ Goto("exited")
    /\ UNCHANGED <<ctxDone, http, debug, users, pool, timedOut>>

ReleaseBegins == Room /\ ~ctxDone /\ LoopTo("waiting", "tx")
ReleaseEnds == LoopTo("tx", "waiting")
LoopStops == ctxDone /\ LoopTo("waiting", "stopped")
-----------------------------------------------------------------------------
Startup ==
    \/ \E withPprof, positive \in BOOLEAN : Configure(withPprof, positive)
    \/ InvokeFails \/ Connect \/ ConnectFails \/ ConnectAgain \/ ConnectAbandoned \/ Start

Stop ==
    \/ SignalSeen \/ ServerStopSeen \/ PprofStopSeen
    \/ Shutdown \/ Drained \/ ShutdownTimesOut \/ ShutdownPprof \/ CloseResources \/ PoolClosed

Main == Startup \/ Stop

Serve(r) == NoTransaction(r) \/ EndTransaction(r) \/ Answer(r)

Others ==
    \/ Signal \/ Listen \/ ServerStops \/ PprofStops
    \/ \E r \in Reqs : Accept(r) \/ Acquire(r) \/ Serve(r)
    \/ NewTicker \/ TickerPanics \/ ReleaseBegins \/ ReleaseEnds \/ LoopStops

Next == Main \/ Others

Spec == Init /\ [][Next]_vars
-----------------------------------------------------------------------------
(* The process does not exit in the middle of a transaction: neither of a  *)
(* request that outlived the shutdown, nor of the auto-release loop, which *)
(* may be at work without knowing of the stop when the server failed; nor  *)
(* when a part of it cannot be built.  Only a release interval that is not *)
(* positive may cut a transaction.                                         *)
NoTransactionCut == pc = "exited" /\ ticks => Holders = {}

(* A request that was accepted is answered before the process exits,       *)
(* unless the shutdown timed out.                                          *)
AcceptedIsAnswered == pc = "exited" /\ ticks /\ ~timedOut => Idle

(* The process stops serving only because of a signal or because its HTTP  *)
(* server stopped: the end of the pprof server alone does not stop it.     *)
StopsForAReason ==
    pc \in {"shutdown", "drain", "pprof", "close", "pool"} => ctxDone \/ server = "stopped"
=============================================================================
