----------------------------- MODULE Lifecycle -----------------------------
(***************************************************************************)
(* The life of the exporter process (main.go): start-up, serve, its signal *)
(* goroutine and the reloader.  A reload may be asked for by SIGHUP and by *)
(* any number of concurrent POSTs to /-/reload while the configuration     *)
(* file is being edited; a termination signal shuts the server down while  *)
(* requests are in flight.                                                 *)
(*                                                                         *)
(* A configuration is the version number of the file it was read from.     *)
(* config.Load reads that file first and the known_hosts files that it     *)
(* names later; the file may be edited in between.                         *)
(* net/http and os/signal are external and modelled by what serve relies   *)
(* on: os/signal never blocks on the channel, it drops the signal.         *)
(***************************************************************************)
EXTENDS Integers

CONSTANTS
    Posters,        \* requests to /-/reload
    MaxEdits,       \* bound on edits of the configuration file
    MaxSignals      \* bound on signals sent to the process

Main       == "main"                \* the main goroutine, which loads first
SignalLoop == "signal loop"         \* the goroutine that serve starts
Actors     == Posters \cup {Main, SignalLoop}
Nobody     == "nobody"
NoConfig   == -1
Running    == -1                    \* exit before the process has ended
Killed     == 2                     \* exit if a signal took its default action

ASSUME PostersAssumption == {Main, SignalLoop, Nobody} \cap Posters = {}
ASSUME BoundsAssumption == MaxEdits \in Nat /\ MaxSignals \in Nat

VARIABLES
    file,           \* the configuration file: its version and whether it is valid
    live,           \* version of the configuration the handlers use
    successful,     \* the gauge config_last_reload_successful
    timestamp,      \* the gauge config_last_reload_success_timestamp_seconds, as the
                    \* version whose load set it
    mu,             \* holder of reloader.mu
    reload,         \* where each actor is in its load of the configuration
    modules,        \* what its config.Load has read, and in the end returned
    status,         \* response to each POST, 0 before
    sigCh,          \* channel of capacity 1: empty or the signal it holds
    notify,         \* signals are relayed to sigCh
    sent,           \* number of signals sent
    loop,           \* where the signal goroutine is
    server,         \* the HTTP server
    main,           \* where the main goroutine is
    stop,           \* the channel `stop' is closed
    slow,           \* another request in flight: a probe, or a client that reads slowly
    shutdownErr,    \* Shutdown gave up waiting
    listenErr,      \* listenAndServe failed by itself
    exit,           \* the exit code of the process
    \* history
    good,           \* versions of the file that were valid
    lastLoaded,     \* version that the most recent config.Load read
    lastFailed,     \* whether the most recent config.Load returned an error
    asked,          \* for each POST, the version of the file when it arrived
    hupVersion,     \* version of the file at the latest SIGHUP, -1 before any
    termSent        \* a SIGTERM was sent

fileVars   == <<file, good>>
liveVars   == <<live, successful, timestamp>>
reloadVars == <<liveVars, mu, reload, modules, status, lastLoaded, lastFailed>>
signalVars == <<sigCh, notify, sent, hupVersion, termSent>>
serveVars  == <<server, stop, shutdownErr, listenErr>>
vars == <<fileVars, reloadVars, signalVars, serveVars, loop, main, exit, slow, asked>>

Init ==
    /\ file \in [version : {0}, valid : BOOLEAN]
    /\ good = IF file.valid THEN {0} ELSE {}
    /\ live = NoConfig /\ timestamp = NoConfig /\ lastLoaded = NoConfig
    /\ lastFailed = FALSE
    /\ successful = 0
    /\ mu = Nobody
    /\ reload = [a \in Actors |-> "idle"]
    /\ modules = [a \in Actors |-> file]
    /\ status = [p \in Posters |-> 0]
    /\ sigCh = "empty"
    /\ notify = FALSE
    /\ sent = 0
    /\ loop = "none"
    /\ server = "starting"
    /\ main = "flags"
    /\ slow = "idle"
    /\ stop = FALSE /\ shutdownErr = FALSE /\ listenErr = FALSE /\ termSent = FALSE
    /\ exit = Running
    /\ asked = [p \in Posters |-> 0]
    /\ hupVersion = -1

Active == slow = "active" \/ \E p \in Posters : reload[p] \notin {"idle", "done"}

-----------------------------------------------------------------------------
(***************************************************************************)
(* The environment: edits, signals and requests.                           *)
(***************************************************************************)
Edit(valid) ==
    /\ exit = Running
    /\ file.version < MaxEdits
    /\ file' = [version |-> file.version + 1, valid |-> valid]
    /\ good' = IF valid THEN good \cup {file.version + 1} ELSE good
    /\ UNCHANGED <<reloadVars, signalVars, serveVars, loop, main, exit, slow, asked>>

\* Variant of room for a channel without a buffer.
RoomUnbuffered == sigCh = "empty" /\ loop = "select"

\* The channel of capacity 1 can take a signal.
room == sigCh = "empty"

\* os/signal relays the signal if there is room for it; before signal.Notify and after
\* signal.Stop its default action terminates the process.
Signal(sig) ==
    /\ exit = Running
    /\ sent < MaxSignals
    /\ sent' = sent + 1
    /\ hupVersion' = IF sig = "SIGHUP" THEN file.version ELSE hupVersion
    /\ termSent' = (termSent \/ sig = "SIGTERM")
    /\ sigCh' = IF notify /\ room THEN sig ELSE sigCh
    /\ exit' = IF notify THEN exit ELSE Killed
    /\ UNCHANGED <<fileVars, reloadVars, notify, serveVars, loop, main, slow, asked>>

Post(p) ==
    /\ exit = Running /\ server = "serving"
    /\ reload[p] = "idle"
    /\ reload' = [reload EXCEPT ![p] = "lock"]
    /\ asked' = [asked EXCEPT ![p] = file.version]
    /\ UNCHANGED <<fileVars, liveVars, mu, modules, status, lastLoaded, lastFailed,
                   signalVars, serveVars, loop, main, exit, slow>>

SlowRequest ==
    /\ exit = Running
    /\ \/ server = "serving" /\ slow = "idle" /\ slow' = "active"
       \/ slow = "active" /\ slow' = "done"
    /\ UNCHANGED <<fileVars, reloadVars, signalVars, serveVars, loop, main, exit, asked>>

-----------------------------------------------------------------------------
(***************************************************************************)
(* reloader.reload, run by the signal goroutine and by each POST; main     *)
(* does the same before serve, without the mutex.                          *)
(***************************************************************************)
otherVars == <<fileVars, signalVars, serveVars, slow, asked>>

\* Variant of unlocked: there is no mutex.
AlwaysUnlocked == TRUE

unlocked == mu = Nobody

Lock(a) ==
    /\ exit = Running
    /\ reload[a] = "lock"
    /\ unlocked
    /\ mu' = a
    /\ reload' = [reload EXCEPT ![a] = "load"]
    /\ UNCHANGED <<liveVars, modules, status, lastLoaded, lastFailed, loop, main, exit,
                   otherVars>>

\* config.Load reads the configuration file, in loadRawConfig.
Load(a) ==
    /\ exit = Running
    /\ reload[a] = "load"
    /\ reload' = [reload EXCEPT ![a] = "build"]
    /\ modules' = [modules EXCEPT ![a] = file]
    /\ lastLoaded' = file.version
    /\ UNCHANGED <<liveVars, mu, status, lastFailed, loop, main, exit, otherVars>>

\* The rest of config.Load: a file that is not valid is refused, by loadRawConfig or, for
\* its target patterns, by build; for one that is, build reads the known_hosts files as
\* they are by now, and fails on one that it cannot read.
Build(a) ==
    /\ exit = Running
    /\ reload[a] = "build"
    /\ reload' = [reload EXCEPT ![a] = "record"]
    /\ \E readable \in BOOLEAN :
         modules' = [modules EXCEPT ![a].valid = @ /\ readable]
    /\ lastFailed' = ~modules'[a].valid
    /\ UNCHANGED <<liveVars, mu, status, lastLoaded, loop, main, exit, otherVars>>

\* Variant of outcome that leaves the gauge alone when the load failed.
OutcomeOfSuccess(m) == IF m.valid THEN 1 ELSE successful

outcome(m) == IF m.valid THEN 1 ELSE 0

\* Variant of afterRecord without the check for an error.
StoreAlways(m) == "store"

afterRecord(m) == IF m.valid THEN "store" ELSE "loaded"

\* configReloadMetrics.record; a failed load goes no further.
Record(a) ==
    /\ exit = Running
    /\ reload[a] = "record"
    /\ successful' = outcome(modules[a])
    /\ timestamp' = IF modules[a].valid THEN modules[a].version ELSE timestamp
    /\ reload' = [reload EXCEPT ![a] = afterRecord(modules[a])]
    /\ UNCHANGED <<live, mu, modules, status, lastLoaded, lastFailed, loop, main, exit,
                   otherVars>>

Store(a) ==
    /\ exit = Running
    /\ reload[a] = "store"
    /\ live' = modules[a].version
    /\ reload' = [reload EXCEPT ![a] = "loaded"]
    /\ UNCHANGED <<successful, timestamp, mu, modules, status, lastLoaded, lastFailed, loop,
                   main, exit, otherVars>>

\* Variant of statusCode: every POST is answered alike.
StatusOK(m) == 200

statusCode(m) == IF m.valid THEN 200 ELSE 500

\* Variant of released that unlocks at the end of reload only, past the early return.
ReleasedOnSuccess(a) == IF modules[a].valid THEN Nobody ELSE mu

\* The mutex after the deferred unlock.
released(a) == Nobody

\* reload returns; a POST is then answered, the goroutine selects again.
Unlock(a) ==
    /\ exit = Running
    /\ a # Main /\ reload[a] = "loaded"
    /\ mu' = released(a)
    /\ reload' = [reload EXCEPT ![a] = IF a = SignalLoop THEN "idle" ELSE "done"]
    /\ status' = IF a = SignalLoop THEN status
                 ELSE [status EXCEPT ![a] = statusCode(modules[a])]
    /\ loop' = IF a = SignalLoop THEN "select" ELSE loop
    /\ UNCHANGED <<liveVars, modules, lastLoaded, lastFailed, main, exit, otherVars>>

Reload(a) == Lock(a) \/ Load(a) \/ Build(a) \/ Record(a) \/ Store(a) \/ Unlock(a)

-----------------------------------------------------------------------------
(***************************************************************************)
(* The signal goroutine of serve.                                          *)
(***************************************************************************)
LoopStops ==
    /\ exit = Running
    /\ loop = "select" /\ stop
    /\ loop' = "exited"
    /\ UNCHANGED <<fileVars, reloadVars, signalVars, serveVars, main, exit, slow, asked>>

LoopReceives ==
    /\ exit = Running
    /\ loop = "select" /\ sigCh # "empty"
    /\ sigCh' = "empty"
    /\ \/ sigCh = "SIGHUP" /\ loop' = "reload" /\ reload' = [reload EXCEPT ![SignalLoop] = "lock"]
       \/ sigCh = "SIGTERM" /\ loop' = "terminate" /\ UNCHANGED reload
    /\ UNCHANGED <<fileVars, liveVars, mu, modules, status, lastLoaded, lastFailed, notify,
                   sent, hupVersion, termSent, serveVars, main, exit, slow, asked>>

StopSignals ==
    /\ exit = Running
    /\ loop = "terminate"
    /\ notify' = FALSE
    /\ loop' = "shutdown"
    /\ UNCHANGED <<fileVars, reloadVars, sigCh, sent, hupVersion, termSent, serveVars, main, exit,
                   slow, asked>>

\* Shutdown closes the listeners, then waits for the requests in flight.
BeginShutdown ==
    /\ exit = Running
    /\ loop = "shutdown"
    /\ server' = "shutdown"
    /\ loop' = "draining"
    /\ UNCHANGED <<fileVars, reloadVars, signalVars, stop, shutdownErr, listenErr, main, exit,
                   slow, asked>>

EndShutdown(timedOut) ==
    /\ exit = Running
    /\ loop = "draining"
    /\ shutdownErr' = timedOut
    /\ loop' = "exited"
    /\ UNCHANGED <<fileVars, reloadVars, signalVars, server, stop, listenErr, main, exit, slow,
                   asked>>

Drained == EndShutdown(FALSE) /\ ~Active

\* Variant of ShutdownTimesOut for a Shutdown without a deadline.
ShutdownNeverTimesOut == FALSE /\ UNCHANGED vars

ShutdownTimesOut == EndShutdown(TRUE) /\ Active

-----------------------------------------------------------------------------
(***************************************************************************)
(* The main goroutine.                                                     *)
(***************************************************************************)
Exit(code) ==
    /\ exit' = code
    /\ UNCHANGED <<fileVars, reloadVars, signalVars, serveVars, loop, main, slow, asked>>

\* parseFlags, with flags.validate; --help and --version exit with 0.
ParseFlags ==
    /\ exit = Running
    /\ main = "flags"
    /\ \/ \E code \in {0, 1} : Exit(code)
       \/ /\ main' = "load"
          /\ reload' = [reload EXCEPT ![Main] = "load"]
          /\ UNCHANGED <<fileVars, liveVars, mu, modules, status, lastLoaded, lastFailed,
                         signalVars, serveVars, loop, exit, slow, asked>>

FirstLoadFails == exit = Running /\ reload[Main] = "loaded" /\ live = NoConfig /\ Exit(1)

\* --config.check: exit instead of storing, with 1 if the web configuration is not valid.
checkConfig == exit = Running /\ reload[Main] = "store" /\ \E code \in {0, 1} : Exit(code)

\* The handlers are set up, signals relayed, and serve starts its goroutine.
StartServe ==
    /\ exit = Running
    /\ reload[Main] = "loaded" /\ live # NoConfig
    /\ reload' = [reload EXCEPT ![Main] = "done"]
    /\ main' = "serving"
    /\ notify' = TRUE
    /\ loop' = "select"
    /\ UNCHANGED <<fileVars, liveVars, mu, modules, status, lastLoaded, lastFailed, sigCh,
                   sent, hupVersion, termSent, serveVars, exit, slow, asked>>

Listen ==
    /\ exit = Running
    /\ main = "serving" /\ server = "starting"
    /\ server' = "serving"
    /\ UNCHANGED <<fileVars, reloadVars, signalVars, stop, shutdownErr, listenErr, loop, main,
                   exit, slow, asked>>

\* listenAndServe returns, because of Shutdown or by an error of its own.
ListenReturns(failed) ==
    /\ exit = Running
    /\ main = "serving"
    /\ failed <=> server # "shutdown"
    /\ listenErr' = failed
    /\ main' = "closeStop"
    /\ UNCHANGED <<fileVars, reloadVars, signalVars, server, stop, shutdownErr, loop, exit, slow,
                   asked>>

CloseStop ==
    /\ exit = Running
    /\ main = "closeStop"
    /\ stop' = TRUE
    /\ main' = "waiting"
    /\ UNCHANGED <<fileVars, reloadVars, signalVars, server, shutdownErr, listenErr, loop, exit,
                   slow, asked>>

\* Variant of shutdownDone that does not wait.
ShutdownDoneAtOnce == TRUE

\* The channel is closed when the signal goroutine returns.
shutdownDone == loop = "exited"

ServeReturns ==
    /\ exit = Running
    /\ main = "waiting" /\ shutdownDone
    /\ Exit(IF listenErr THEN 1 ELSE 0)

Ended == exit # Running /\ UNCHANGED vars

-----------------------------------------------------------------------------
SignalGoroutine == LoopStops \/ LoopReceives \/ StopSignals \/ BeginShutdown \/ Drained

StartUp == ParseFlags \/ FirstLoadFails \/ checkConfig \/ StartServe
Serve   == Listen \/ ListenReturns(FALSE) \/ CloseStop \/ ServeReturns

Environment ==
    \/ \E valid \in BOOLEAN : Edit(valid)
    \/ \E sig \in {"SIGHUP", "SIGTERM"} : Signal(sig)
    \/ \E p \in Posters : Post(p)
    \/ SlowRequest
    \/ ListenReturns(TRUE)

Next ==
    \/ Environment
    \/ \E a \in Actors : Reload(a)
    \/ SignalGoroutine \/ ShutdownTimesOut
    \/ StartUp \/ Serve
    \/ Ended

Spec == Init /\ [][Next]_vars

(***************************************************************************)
(* The goroutines of the process keep running and the deadline of the      *)
(* shutdown expires.  Nothing is assumed of who edits, sends signals or    *)
(* talks HTTP; in particular a slow request may never end.                 *)
(***************************************************************************)
FairSpec ==
    /\ Spec
    /\ \A a \in Actors : WF_vars(Reload(a))
    /\ WF_vars(SignalGoroutine)
    /\ WF_vars(ShutdownTimesOut)
    /\ WF_vars(StartUp \/ Serve)

-----------------------------------------------------------------------------
(***************************************************************************)
(* Properties.                                                             *)
(***************************************************************************)
Versions == 0..MaxEdits
Files    == [version : Versions, valid : BOOLEAN]

\* Every variable has its type; LifecycleProofs proves it.
TypeOK ==
    /\ file \in Files /\ good \subseteq Versions
    /\ live \in Versions \cup {NoConfig} /\ timestamp \in Versions \cup {NoConfig}
    /\ lastLoaded \in Versions \cup {NoConfig} /\ lastFailed \in BOOLEAN
    /\ successful \in {0, 1}
    /\ mu \in Actors \cup {Nobody}
    /\ reload \in [Actors -> {"idle", "lock", "load", "build", "record", "store", "loaded",
                             "done"}]
    /\ modules \in [Actors -> Files]
    /\ status \in [Posters -> {0, 200, 500}]
    /\ sigCh \in {"empty", "SIGHUP", "SIGTERM"}
    /\ notify \in BOOLEAN /\ stop \in BOOLEAN /\ termSent \in BOOLEAN
    /\ shutdownErr \in BOOLEAN /\ listenErr \in BOOLEAN
    /\ sent \in 0..MaxSignals
    /\ loop \in {"none", "select", "reload", "terminate", "shutdown", "draining", "exited"}
    /\ server \in {"starting", "serving", "shutdown"}
    /\ main \in {"flags", "load", "serving", "closeStop", "waiting"}
    /\ slow \in {"idle", "active", "done"}
    /\ exit \in {Running, 0, 1, Killed}
    /\ asked \in [Posters -> Versions]
    /\ hupVersion \in Versions \cup {-1}

(***************************************************************************)
(* As the clients of the reloader see it: from the moment that build has   *)
(* succeeded its configuration counts as live and recorded, although both  *)
(* take steps of their own, made under the mutex.                          *)
(***************************************************************************)
loader == IF main = "load" THEN Main ELSE mu
During(steps) == loader # Nobody /\ reload[loader] \in steps

Latest(old) == IF modules[loader].valid THEN modules[loader].version ELSE old

NothingRead == [version |-> NoConfig, valid |-> FALSE]

BeingRead           == IF During({"build"}) THEN modules[loader] ELSE NothingRead
EffectiveLive       == IF During({"record", "store"}) THEN Latest(live) ELSE live
EffectiveTimestamp  == IF During({"record"}) THEN Latest(timestamp) ELSE timestamp
EffectiveSuccessful ==
    IF During({"record"}) THEN IF modules[loader].valid THEN 1 ELSE 0 ELSE successful

\* A POST that is done has its answer on the wire.
Succeeded(a) == IF reload[a] = "done" /\ a \in Posters THEN status[a] = 200 ELSE modules[a].valid

Answer(a) ==
    IF reload[a] = "idle" THEN "none"
    ELSE IF reload[a] \in {"lock", "load"} THEN "waiting"
    ELSE IF reload[a] = "build" THEN "reading"
    ELSE IF Succeeded(a) THEN "ok" ELSE "failed"

Answers == [a \in Actors |-> Answer(a)]

Atomic == INSTANCE AtomicReload WITH
    Clients    <- Actors,
    reading    <- BeingRead,
    live       <- EffectiveLive,
    successful <- EffectiveSuccessful,
    timestamp  <- EffectiveTimestamp,
    answer     <- Answers

\* The reloader implements the atomic one: whoever asks, by SIGHUP or by POST, and however
\* reloads and edits coincide, reloads read the file and take effect one after the other,
\* and each takes effect in one moment between the request and its answer, in which the
\* configuration, the gauges and the answer become those of what it read (main.go:163-186).
ImplementsAtomicReload == Atomic!Spec

\* "an older config never replaces a newer one" (main.go:159-173), with any number of
\* concurrent reloads and edits between them.
LiveNeverGoesBack == [][live' >= live]_vars

\* Whenever no reload is under way the gauges tell the truth about what the handlers
\* use: if the most recent load succeeded it is what that load read, "0 means the exporter
\* is still serving the previously loaded configuration", and the timestamp is that of the
\* load that brought it in (main.go:120-149, 167-173).
GaugeTellsLiveIsLatest ==
    (mu = Nobody /\ live # NoConfig) =>
      /\ successful = IF lastFailed THEN 0 ELSE 1
      /\ successful = 1 => live = lastLoaded
      /\ timestamp = live

\* A POST to /-/reload that is answered 200 was served from a file at least as new as
\* the one its client had written before; one that is answered 500 had read such a file
\* and failed on it or on the known_hosts files that it names (main.go:163-186).
ReloadAnswerIsTrue ==
    \A p \in Posters :
      /\ status[p] = 200 => live >= asked[p]
      /\ status[p] = 500 => ~modules[p].valid /\ modules[p].version >= asked[p]

\* "The listener only opens once the config has loaded, and a failed reload keeps the
\* previous one": whenever a request can be received, the handlers use a configuration
\* that was valid (main.go:204-206, 284-299).
ServesAValidConfig == (server = "serving" \/ Active) => live \in good

\* A SIGHUP leads to a load of the file as it was then, or of a newer one, however many
\* signals and reloads coincide, unless the exporter is stopping (main.go:241-246, 362).
ReloadedAfterHUP ==
    \A v \in Versions :
      hupVersion = v ~> \/ lastLoaded >= v \/ stop \/ exit # Running
                        \/ loop \notin {"none", "select", "reload"}

\* A POST to /-/reload is answered, whatever reloads it has to wait for and however they
\* end, unless the process ends first: every way out of reload gives the mutex back
\* (main.go:163-186).
PostsAnswered == \A p \in Posters : reload[p] = "lock" ~> status[p] # 0 \/ exit # Running

\* A termination signal that serve has received ends it, even if a request in flight
\* never ends: the wait for the drain is bounded (main.go:247-265).
ServeEnds == loop = "terminate" ~> exit # Running

\* Unless the drain timed out, the exporter does not exit with success while a request
\* is in flight (main.go:228-230, 261-271).
DrainedBeforeReturn == (exit = 0 /\ ~shutdownErr) => ~Active

\* main.go:228-229 says that serve runs "until a termination signal arrives", and
\* main_test.go:351 that a "termination signal drains in-flight requests"; one that
\* finds a SIGHUP in the channel of capacity 1 (main.go:362) is dropped.
TerminationSignalTerminates == termSent ~> exit # Running
=============================================================================
