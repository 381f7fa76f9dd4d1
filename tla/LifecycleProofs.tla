-------------------------- MODULE LifecycleProofs --------------------------
(***************************************************************************)
(* Proofs about Lifecycle, for any number of POSTs, edits and signals.     *)
(*                                                                         *)
(* The inductive invariant IInv says who may be inside reload (Exclusion), *)
(* how the versions in play are ordered and which of them were valid       *)
(* (Ordered), what the gauges show at each step of a reload (Gauges), and  *)
(* what the answer to a POST will rest on (Promised).                      *)
(***************************************************************************)
EXTENDS Lifecycle, TLAPS

\* Positions between lock and unlock, those of them after the file has been read, those
\* after Load has returned, and the positions of main before serve.
Inside   == {"load", "build", "record", "store", "loaded"}
Read     == {"build", "record", "store", "loaded"}
Built    == {"record", "store", "loaded"}
Starting == {"flags", "load"}

\* Of the goroutines that serve requests and signals exactly the holder of the mutex is
\* inside reload (main.go:163-165); main loads without it, before any of them exists.
Exclusion ==
    /\ mu # Main
    /\ \A a \in Actors \ {Main} : reload[a] \in Inside <=> mu = a
    /\ main = "flags" => reload[Main] = "idle"
    /\ main = "load" => reload[Main] \in Inside
    /\ main \notin Starting => reload[Main] = "done"
    /\ main \in Starting => server = "starting" /\ loop = "none"
                            /\ \A a \in Actors \ {Main} : reload[a] = "idle"
    /\ loop = "reload" \/ reload[SignalLoop] = "idle"

\* live <= lastLoaded <= the version of the file: what the loader read is the latest that
\* anybody read, so storing it cannot go back (main.go:159-173).
Ordered ==
    /\ file.valid <=> file.version \in good
    /\ \A v \in good : v <= file.version
    /\ \A a \in Actors : /\ modules[a].version <= file.version
                         /\ modules[a].valid => modules[a].version \in good
    /\ live <= lastLoaded /\ lastLoaded <= file.version
    /\ live = NoConfig \/ live \in good
    /\ During(Read) => modules[loader].version = lastLoaded
    /\ live = NoConfig <=> \/ main = "flags"
                           \/ main = "load" /\ ~(reload[Main] = "loaded" /\ modules[Main].valid)

\* The gauges follow the outcome of the last load, but before record they are behind it, and
\* between record and store ahead of live (main.go:167-172).
Gauges ==
    /\ During({"store"}) => modules[loader].valid /\ successful = 1 /\ timestamp = lastLoaded
    /\ ~During({"store"}) => timestamp = live
    /\ During(Built) => (lastFailed <=> ~modules[loader].valid)
    /\ (~During({"record"}) /\ live # NoConfig) => successful = IF lastFailed THEN 0 ELSE 1
    /\ (~During({"build", "record", "store"}) /\ live # NoConfig /\ ~lastFailed)
         => live = lastLoaded

\* A POST reads the file after it was asked, and what it reads decides its answer and, if
\* valid, is live from the store on (main.go:176-186).
PromisedTo(p) ==
    /\ asked[p] <= file.version
    /\ reload[p] \in Read => modules[p].version >= asked[p]
    /\ (reload[p] = "loaded" /\ modules[p].valid) => live >= modules[p].version
    /\ reload[p] # "done" => status[p] = 0
    /\ reload[p] = "done" => /\ modules[p].version >= asked[p]
                             /\ status[p] = IF modules[p].valid THEN 200 ELSE 500
                             /\ modules[p].valid => live >= modules[p].version

Promised == \A p \in Posters : PromisedTo(p)

IInv == TypeOK /\ Exclusion /\ Ordered /\ Gauges /\ Promised

-----------------------------------------------------------------------------
(***************************************************************************)
(* Types.                                                                  *)
(***************************************************************************)
\* The actions of Next, one by one.
LEMMA NextCases ==
  ASSUME [Next]_vars
  PROVE  \/ \E valid \in BOOLEAN : Edit(valid)
         \/ \E sig \in {"SIGHUP", "SIGTERM"} : Signal(sig)
         \/ \E p \in Posters : Post(p)
         \/ SlowRequest
         \/ \E failed \in BOOLEAN : ListenReturns(failed)
         \/ \E a \in Actors : Lock(a) \/ Load(a) \/ Build(a) \/ Record(a) \/ Store(a)
                             \/ Unlock(a)
         \/ LoopStops \/ LoopReceives \/ StopSignals \/ BeginShutdown
         \/ \E timedOut \in BOOLEAN : EndShutdown(timedOut)
         \/ ParseFlags \/ FirstLoadFails \/ checkConfig \/ StartServe
         \/ Listen \/ CloseStop \/ ServeReturns
         \/ UNCHANGED vars
  BY DEF Next, Environment, Reload, SignalGoroutine, StartUp, Serve, Drained, ShutdownTimesOut,
         Ended

\* An edit stays within the bound on versions.
LEMMA EditTypes ==
  ASSUME file \in Files, good \subseteq Versions, NEW valid \in BOOLEAN, Edit(valid)
  PROVE  file' \in Files /\ good' \subseteq Versions
<1>1. file.version + 1 \in Versions
  BY BoundsAssumption DEF Edit, Files, Versions
<1>2. file' \in Files
  BY <1>1 DEF Edit, Files
<1>3. good' = good \cup {file.version + 1} \/ good' = good
  BY DEF Edit
<1> QED
  BY <1>1, <1>2, <1>3

\* Every variable keeps its type.
LEMMA TypeStep ==
  ASSUME TypeOK, [Next]_vars
  PROVE  TypeOK'
<1> USE PostersAssumption, BoundsAssumption DEF TypeOK, Versions, Files, Actors, NoConfig, Running
<1>1. CASE \E valid \in BOOLEAN : Edit(valid)
  <2> PICK valid \in BOOLEAN : Edit(valid)
    BY <1>1
  <2>1. file' \in Files /\ good' \subseteq Versions
    BY EditTypes
  <2> QED
    BY <2>1 DEF Edit, reloadVars, liveVars, signalVars, serveVars
<1>2. CASE \E sig \in {"SIGHUP", "SIGTERM"} : Signal(sig)
  BY <1>2 DEF Signal, Killed, vars, fileVars, reloadVars, liveVars, signalVars, serveVars,
              otherVars
<1>3. CASE \E p \in Posters : Post(p)
  BY <1>3 DEF Post, vars, fileVars, reloadVars, liveVars, signalVars, serveVars, otherVars
<1>4. CASE SlowRequest
  BY <1>4 DEF SlowRequest, vars, fileVars, reloadVars, liveVars, signalVars, serveVars,
              otherVars
<1>5. CASE \E failed \in BOOLEAN : ListenReturns(failed)
  BY <1>5 DEF ListenReturns, vars, fileVars, reloadVars, liveVars, signalVars, serveVars,
              otherVars
<1>6. CASE \E a \in Actors : Lock(a)
  BY <1>6 DEF Lock, vars, fileVars, reloadVars, liveVars, signalVars, serveVars, otherVars
<1>7. CASE \E a \in Actors : Load(a)
  BY <1>7 DEF Load, vars, fileVars, reloadVars, liveVars, signalVars, serveVars, otherVars
<1>7a. CASE \E a \in Actors : Build(a)
  <2> PICK a \in Actors : Build(a)
    BY <1>7a
  <2>1. lastFailed' \in BOOLEAN
    BY Zenon DEF Build
  <2>2. modules' \in [Actors -> Files]
    BY DEF Build
  <2>3. reload' = [reload EXCEPT ![a] = "record"]
    BY DEF Build
  <2> QED
    BY <2>1, <2>2, <2>3 DEF Build, fileVars, liveVars, signalVars, serveVars, otherVars
<1>8. CASE \E a \in Actors : Record(a)
  BY <1>8 DEF Record, outcome, afterRecord, vars, fileVars, reloadVars, liveVars,
              signalVars, serveVars, otherVars
<1>9. CASE \E a \in Actors : Store(a)
  BY <1>9 DEF Store, vars, fileVars, reloadVars, liveVars, signalVars, serveVars, otherVars
<1>10. CASE \E a \in Actors : Unlock(a)
  BY <1>10 DEF Unlock, statusCode, released, vars, fileVars, reloadVars, liveVars,
               signalVars, serveVars, otherVars
<1>11. CASE LoopStops
  BY <1>11 DEF LoopStops, vars, fileVars, reloadVars, liveVars, signalVars, serveVars,
               otherVars
<1>12. CASE LoopReceives
  BY <1>12 DEF LoopReceives, vars, fileVars, reloadVars, liveVars, signalVars, serveVars,
               otherVars
<1>13. CASE StopSignals
  <2>1. notify' \in BOOLEAN
    BY <1>13, Zenon DEF StopSignals
  <2> QED
    BY <1>13, <2>1 DEF StopSignals, fileVars, reloadVars, liveVars, serveVars
<1>14. CASE BeginShutdown
  BY <1>14 DEF BeginShutdown, vars, fileVars, reloadVars, liveVars, signalVars, serveVars,
               otherVars
<1>15. CASE \E timedOut \in BOOLEAN : EndShutdown(timedOut)
  BY <1>15 DEF EndShutdown, vars, fileVars, reloadVars, liveVars, signalVars, serveVars,
               otherVars
<1>16. CASE ParseFlags
  <2>1. CASE \E code \in {0, 1} : Exit(code)
    BY <1>16, <2>1 DEF ParseFlags, Exit, fileVars, reloadVars, liveVars, signalVars, serveVars
  <2>2. CASE ~\E code \in {0, 1} : Exit(code)
    <3>0. /\ main' = "load"
          /\ reload' = [reload EXCEPT ![Main] = "load"]
          /\ UNCHANGED <<fileVars, liveVars, mu, modules, status, lastLoaded, lastFailed,
                         signalVars, serveVars, loop, exit, slow, asked>>
      BY <1>16, <2>2, Zenon DEF ParseFlags
    <3> QED
      BY <3>0 DEF fileVars, liveVars, signalVars, serveVars
  <2> QED
    BY <1>16, <2>1, <2>2 DEF ParseFlags
<1>17. CASE FirstLoadFails
  BY <1>17 DEF FirstLoadFails, Exit, vars, fileVars, reloadVars, liveVars, signalVars,
               serveVars, otherVars
<1>18. CASE checkConfig
  BY <1>18 DEF checkConfig, Exit, vars, fileVars, reloadVars, liveVars, signalVars,
               serveVars, otherVars
<1>19. CASE StartServe
  <2>1. notify' \in BOOLEAN
    BY <1>19, Zenon DEF StartServe
  <2> QED
    BY <1>19, <2>1 DEF StartServe, fileVars, liveVars, serveVars
<1>20. CASE Listen
  BY <1>20 DEF Listen, vars, fileVars, reloadVars, liveVars, signalVars, serveVars,
               otherVars
<1>21. CASE CloseStop
  BY <1>21 DEF CloseStop, vars, fileVars, reloadVars, liveVars, signalVars, serveVars,
               otherVars
<1>22. CASE ServeReturns
  BY <1>22 DEF ServeReturns, Exit, vars, fileVars, reloadVars, liveVars, signalVars,
               serveVars, otherVars
<1>23. CASE UNCHANGED vars
  BY <1>23 DEF vars, fileVars, reloadVars, liveVars, signalVars, serveVars, otherVars
<1> HIDE DEF TypeOK, Versions, Files, Actors, NoConfig, Running
<1>24. QED
  BY NextCases, <1>1, <1>2, <1>3, <1>4, <1>5, <1>6, <1>7, <1>7a, <1>8, <1>9, <1>10, <1>11, <1>12,
                <1>13, <1>14, <1>15, <1>16, <1>17, <1>18, <1>19, <1>20, <1>21, <1>22, <1>23

\* The actors are all different.
LEMMA ActorsDiffer ==
  /\ Main \in Actors /\ SignalLoop \in Actors /\ Main # SignalLoop /\ Nobody \notin Actors
  /\ Main \notin Posters /\ SignalLoop \notin Posters
  /\ \A p \in Posters : p \in Actors /\ p # Main /\ p # SignalLoop /\ p # Nobody
BY PostersAssumption DEF Actors, Main, SignalLoop, Nobody

-----------------------------------------------------------------------------
(***************************************************************************)
(* The inductive invariant.                                                *)
(***************************************************************************)
\* The invariant holds when the process starts.
LEMMA InitIInv ==
  ASSUME Init
  PROVE  IInv
<1> USE PostersAssumption, BoundsAssumption, ActorsDiffer
        DEF Init, Versions, Files, NoConfig, Running, Inside, Read, Built, Starting
<1>1. TypeOK
  <2>1. good \subseteq Versions
    BY DEF TypeOK
  <2>2. stop \in BOOLEAN /\ shutdownErr \in BOOLEAN /\ listenErr \in BOOLEAN
        /\ termSent \in BOOLEAN /\ notify \in BOOLEAN /\ lastFailed \in BOOLEAN
    BY Zenon
  <2> QED
    BY <2>1, <2>2 DEF TypeOK
<1>2. Exclusion
  BY DEF Exclusion
<1>3. Ordered
  BY DEF Ordered, During, loader
<1>4. Gauges
  BY DEF Gauges, During, loader
<1>5. Promised
  <2>1. file.version = 0
    OBVIOUS
  <2>2. \A p \in Posters : asked[p] = 0 /\ status[p] = 0 /\ reload[p] = "idle"
    OBVIOUS
  <2> HIDE PostersAssumption, BoundsAssumption, ActorsDiffer DEF Init
  <2>3. ASSUME NEW p \in Posters
        PROVE  asked[p] <= file.version
    <3>1. asked[p] = 0
      BY <2>2
    <3> QED
      BY <3>1, <2>1
  <2> QED
    BY <2>2, <2>3, Zenon DEF Promised, PromisedTo, Read
<1> QED
  BY <1>1, <1>2, <1>3, <1>4, <1>5 DEF IInv

\* Only steps of the reloader, of start-up and of the environment concern the invariant.
core == <<fileVars, liveVars, mu, reload, modules, status, lastLoaded, lastFailed, asked>>

\* The other steps keep all of it but Exclusion, which also speaks of the server and the
\* signal goroutine.
LEMMA Frame ==
  ASSUME IInv, UNCHANGED core,
         main' = main \/ (main \notin Starting /\ main' \notin Starting)
  PROVE  Ordered' /\ Gauges' /\ Promised'
<1>1. loader' = loader
  BY DEF loader, core, Starting
<1>2. \A S : During(S)' <=> During(S)
  BY <1>1 DEF During, core
<1>3. Ordered'
  BY <1>1, <1>2 DEF IInv, Ordered, core, fileVars, liveVars, Starting
<1>4. Gauges'
  BY <1>1, <1>2 DEF IInv, Gauges, core, liveVars
<1>5. Promised'
  BY DEF IInv, Promised, PromisedTo, core, fileVars, liveVars
<1> QED
  BY <1>3, <1>4, <1>5

-----------------------------------------------------------------------------
(***************************************************************************)
(* Who loads.                                                              *)
(***************************************************************************)
\* Whoever is inside reload is the loader.
LEMMA InsideIsLoader ==
  ASSUME IInv, NEW a \in Actors, reload[a] \in Inside
  PROVE  /\ loader = a /\ a # Nobody
         /\ main = "load" <=> a = Main
         /\ main # "flags"
<1>1. CASE a = Main
  BY <1>1, ActorsDiffer DEF IInv, TypeOK, Exclusion, loader, Inside, Starting
<1>2. CASE a # Main
  <2>1. mu = a /\ main \notin Starting
    BY <1>2 DEF IInv, Exclusion, Inside
  <2> QED
    BY <1>2, <2>1, ActorsDiffer DEF loader, Starting
<1> QED
  BY <1>1, <1>2

\* A step of the loader inside reload leaves it the only one there.
LEMMA LoaderStep ==
  ASSUME IInv, TypeOK', NEW a \in Actors, NEW s \in Inside,
         reload[a] \in Inside, reload' = [reload EXCEPT ![a] = s],
         UNCHANGED <<mu, main, loop, server>>
  PROVE  /\ Exclusion'
         /\ loader' = a
         /\ \A S : During(S) <=> reload[a] \in S
         /\ \A S : During(S)' <=> s \in S
         /\ \A b \in Actors : b # a => reload'[b] = reload[b]
         /\ reload'[a] = s
<1>1. /\ loader = a /\ a # Nobody
      /\ main = "load" <=> a = Main
      /\ main # "flags"
  BY InsideIsLoader
<1>2. loader' = a
  BY <1>1 DEF loader
<1>3. /\ \A b \in Actors : b # a => reload'[b] = reload[b]
      /\ reload'[a] = s
  BY DEF IInv, TypeOK
<1>4. /\ \A S : During(S) <=> reload[a] \in S
      /\ \A S : During(S)' <=> s \in S
  BY <1>1, <1>2, <1>3 DEF During
<1>5. Exclusion'
  <2>1. (\A b \in Actors \ {Main} : reload[b] \in Inside <=> mu = b)'
    BY <1>3 DEF IInv, Exclusion
  <2>2. (main = "load" => reload[Main] \in Inside)'
    BY <1>1, <1>3 DEF IInv, Exclusion
  <2>3. (main \notin Starting => reload[Main] = "done")'
    BY <1>1, <1>3, ActorsDiffer DEF IInv, Exclusion, Inside, Starting
  <2>4. (main \in Starting => server = "starting" /\ loop = "none"
                            /\ \A b \in Actors \ {Main} : reload[b] = "idle")'
    <3>1. main \in Starting => a = Main
      BY <1>1 DEF Starting
    <3> QED
      BY <1>3, <3>1 DEF IInv, Exclusion
  <2>5. (loop = "reload" \/ reload[SignalLoop] = "idle")'
    BY <1>3, ActorsDiffer DEF IInv, Exclusion, Inside
  <2> QED
    BY <1>1, <2>1, <2>2, <2>3, <2>4, <2>5 DEF IInv, Exclusion
<1> QED
  BY <1>2, <1>3, <1>4, <1>5

-----------------------------------------------------------------------------
(***************************************************************************)
(* The steps of a reload.                                                  *)
(***************************************************************************)
\* What was read is at least as new as what anybody read before.
LEMMA LoadStep ==
  ASSUME IInv, TypeOK', NEW a \in Actors, Load(a)
  PROVE  IInv'
<1>1. /\ Exclusion' /\ loader' = a
      /\ \A S : During(S) <=> reload[a] \in S
      /\ \A S : During(S)' <=> "build" \in S
      /\ \A b \in Actors : b # a => reload'[b] = reload[b]
      /\ reload'[a] = "build"
  <2>1. /\ reload[a] = "load" /\ reload[a] \in Inside /\ "build" \in Inside
        /\ reload' = [reload EXCEPT ![a] = "build"]
        /\ UNCHANGED <<mu, main, loop, server>>
    BY DEF Load, Inside, otherVars, serveVars
  <2> QED
    BY <2>1, LoaderStep, Zenon
<1>2. loader = a /\ (main = "load" <=> a = Main) /\ main # "flags"
  BY InsideIsLoader DEF Load, Inside
<1>3. /\ modules'[a] = file /\ lastLoaded' = file.version
      /\ \A b \in Actors : b # a => modules'[b] = modules[b]
      /\ UNCHANGED <<file, good, live, successful, timestamp, lastFailed, main, asked, status>>
  BY DEF Load, IInv, TypeOK, liveVars, otherVars, fileVars
<1>4. /\ live \in Int /\ lastLoaded \in Int /\ file.version \in Int
      /\ \A p \in Posters : asked[p] \in Int
  BY BoundsAssumption DEF IInv, TypeOK, Versions, Files, NoConfig
<1>5. Ordered'
  <2>1. (\A b \in Actors : /\ modules[b].version <= file.version
                           /\ modules[b].valid => modules[b].version \in good)'
    BY <1>3, <1>4 DEF IInv, Ordered
  <2>2. (live <= lastLoaded /\ lastLoaded <= file.version)'
    BY <1>3, <1>4 DEF IInv, Ordered
  <2>3. (During(Read) => modules[loader].version = lastLoaded)'
    BY <1>1, <1>3
  <2>4. (live = NoConfig <=> \/ main = "flags"
                             \/ main = "load" /\ ~(reload[Main] = "loaded" /\ modules[Main].valid))'
    BY <1>1, <1>2, <1>3 DEF IInv, Ordered, Load
  <2> QED
    BY <1>3, <2>1, <2>2, <2>3, <2>4 DEF IInv, Ordered
<1>6. Gauges'
  BY <1>1, <1>3 DEF IInv, Gauges, Built, Load
<1>7. Promised'
  <2> SUFFICES ASSUME NEW p \in Posters PROVE PromisedTo(p)'
    BY DEF Promised
  <2>1. CASE p = a
    BY <1>1, <1>3, <1>4, <2>1, ActorsDiffer DEF IInv, Promised, PromisedTo, Load
  <2>2. CASE p # a
    BY <1>1, <1>3, <2>2, ActorsDiffer DEF IInv, Promised, PromisedTo
  <2> QED
    BY <2>1, <2>2
<1> QED
  BY <1>1, <1>5, <1>6, <1>7 DEF IInv

\* What Load returns is what was read, unless known_hosts files are missing.
LEMMA BuildStep ==
  ASSUME IInv, TypeOK', NEW a \in Actors, Build(a)
  PROVE  IInv'
<1>1. /\ Exclusion' /\ loader' = a
      /\ \A S : During(S) <=> reload[a] \in S
      /\ \A S : During(S)' <=> "record" \in S
      /\ \A b \in Actors : b # a => reload'[b] = reload[b]
      /\ reload'[a] = "record"
  <2>1. /\ reload[a] = "build" /\ reload[a] \in Inside /\ "record" \in Inside
        /\ reload' = [reload EXCEPT ![a] = "record"]
        /\ UNCHANGED <<mu, main, loop, server>>
    BY DEF Build, Inside, otherVars, serveVars
  <2> QED
    BY <2>1, LoaderStep, Zenon
<1>2. loader = a /\ (main = "load" <=> a = Main) /\ main # "flags"
  BY InsideIsLoader DEF Build, Inside
<1>3. /\ modules'[a].version = modules[a].version
      /\ modules'[a].valid => modules[a].valid
      /\ \A b \in Actors : b # a => modules'[b] = modules[b]
      /\ lastFailed' <=> ~modules'[a].valid
      /\ UNCHANGED <<file, good, live, successful, timestamp, lastLoaded, main, asked, status>>
  <2>1. PICK readable \in BOOLEAN : modules' = [modules EXCEPT ![a].valid = @ /\ readable]
    BY DEF Build
  <2>2. modules \in [Actors -> [version : Versions, valid : BOOLEAN]]
    BY DEF IInv, TypeOK, Files
  <2>3. /\ modules'[a].version = modules[a].version
        /\ modules'[a].valid = (modules[a].valid /\ readable)
    BY <2>1, <2>2
  <2>4. \A b \in Actors : b # a => modules'[b] = modules[b]
    BY <2>1, <2>2
  <2>5. lastFailed' <=> ~modules'[a].valid
    BY Zenon DEF Build
  <2>6. UNCHANGED <<file, good, live, successful, timestamp, lastLoaded, main, asked, status>>
    BY DEF Build, liveVars, otherVars, fileVars
  <2> QED
    BY <2>3, <2>4, <2>5, <2>6
<1>4. Ordered'
  <2>1. (\A b \in Actors : /\ modules[b].version <= file.version
                           /\ modules[b].valid => modules[b].version \in good)'
    BY <1>3 DEF IInv, Ordered
  <2>2. (During(Read) => modules[loader].version = lastLoaded)'
    BY <1>1, <1>2, <1>3 DEF IInv, Ordered, Read, Build
  <2>3. (live = NoConfig <=> \/ main = "flags"
                             \/ main = "load" /\ ~(reload[Main] = "loaded" /\ modules[Main].valid))'
    BY <1>1, <1>2, <1>3 DEF IInv, Ordered, Build
  <2> QED
    BY <1>3, <2>1, <2>2, <2>3 DEF IInv, Ordered
<1>5. Gauges'
  BY <1>1, <1>3 DEF IInv, Gauges, Built, Build
<1>6. Promised'
  <2> SUFFICES ASSUME NEW p \in Posters PROVE PromisedTo(p)'
    BY DEF Promised
  <2>1. CASE p = a
    BY <1>1, <1>3, <2>1, ActorsDiffer DEF IInv, Promised, PromisedTo, Read, Build
  <2>2. CASE p # a
    BY <1>1, <1>3, <2>2, ActorsDiffer DEF IInv, Promised, PromisedTo
  <2> QED
    BY <2>1, <2>2
<1> QED
  BY <1>1, <1>4, <1>5, <1>6 DEF IInv

\* A valid file is announced by the gauges and then stored, any other leaves live as it is.
LEMMA RecordStep ==
  ASSUME IInv, TypeOK', NEW a \in Actors, Record(a)
  PROVE  IInv'
<1> DEFINE s == afterRecord(modules[a])
<1>0. /\ reload[a] = "record" /\ s \in Inside
      /\ modules[a].valid => s = "store"
      /\ ~modules[a].valid => s = "loaded"
  BY DEF Record, afterRecord, Inside
<1> HIDE DEF s
<1>1. /\ Exclusion' /\ loader' = a
      /\ \A S : During(S) <=> reload[a] \in S
      /\ \A S : During(S)' <=> s \in S
      /\ \A b \in Actors : b # a => reload'[b] = reload[b]
      /\ reload'[a] = s
  <2>1. /\ reload[a] \in Inside
        /\ reload' = [reload EXCEPT ![a] = s]
        /\ UNCHANGED <<mu, main, loop, server>>
    BY DEF Record, Inside, otherVars, serveVars, s
  <2> QED
    BY <1>0, <2>1, LoaderStep, Zenon
<1>2. loader = a /\ (main = "load" <=> a = Main) /\ main # "flags"
  BY <1>0, InsideIsLoader DEF Inside
<1>3. /\ modules[a].valid => successful' = 1 /\ timestamp' = modules[a].version
      /\ ~modules[a].valid => successful' = 0 /\ timestamp' = timestamp
      /\ UNCHANGED <<file, good, live, modules, lastLoaded, lastFailed, main, asked, status>>
  BY DEF Record, outcome, otherVars, fileVars
<1>4. modules[a].version = lastLoaded /\ (lastFailed <=> ~modules[a].valid)
  BY <1>0, <1>1, <1>2 DEF IInv, Ordered, Gauges, Read, Built
<1>5. Ordered'
  <2>1. (During(Read) => modules[loader].version = lastLoaded)'
    BY <1>1, <1>3, <1>4
  <2>2. (live = NoConfig <=> \/ main = "flags"
                             \/ main = "load" /\ ~(reload[Main] = "loaded" /\ modules[Main].valid))'
    BY <1>0, <1>1, <1>2, <1>3 DEF IInv, Ordered
  <2> QED
    BY <1>3, <2>1, <2>2 DEF IInv, Ordered
<1>6. Gauges'
  <2>1. timestamp = live
    BY <1>0, <1>1 DEF IInv, Gauges
  <2>2. CASE modules[a].valid
    BY <1>0, <1>1, <1>3, <1>4, <2>2 DEF Gauges
  <2>3. CASE ~modules[a].valid
    BY <1>0, <1>1, <1>3, <1>4, <2>1, <2>3 DEF Gauges
  <2> QED
    BY <2>2, <2>3
<1>7. Promised'
  <2> SUFFICES ASSUME NEW p \in Posters PROVE PromisedTo(p)'
    BY DEF Promised
  <2>1. CASE p = a
    BY <1>0, <1>1, <1>3, <2>1, ActorsDiffer DEF IInv, Promised, PromisedTo, Read
  <2>2. CASE p # a
    BY <1>1, <1>3, <2>2, ActorsDiffer DEF IInv, Promised, PromisedTo
  <2> QED
    BY <2>1, <2>2
<1> QED
  BY <1>1, <1>5, <1>6, <1>7 DEF IInv

\* The stored configuration is the one read last, so live does not go back.
LEMMA StoreStep ==
  ASSUME IInv, TypeOK', NEW a \in Actors, Store(a)
  PROVE  IInv' /\ live' >= live
<1>1. /\ Exclusion' /\ loader' = a
      /\ \A S : During(S) <=> reload[a] \in S
      /\ \A S : During(S)' <=> "loaded" \in S
      /\ \A b \in Actors : b # a => reload'[b] = reload[b]
      /\ reload'[a] = "loaded"
  <2>1. /\ reload[a] \in Inside /\ "loaded" \in Inside
        /\ reload' = [reload EXCEPT ![a] = "loaded"]
        /\ UNCHANGED <<mu, main, loop, server>>
    BY DEF Store, Inside, otherVars, serveVars
  <2> QED
    BY <2>1, LoaderStep, Zenon
<1>2. loader = a /\ (main = "load" <=> a = Main) /\ main # "flags"
  BY InsideIsLoader DEF Inside, Store
<1>3. /\ live' = modules[a].version
      /\ UNCHANGED <<file, good, successful, timestamp, modules, lastLoaded, lastFailed, main,
                     asked, status>>
  BY DEF Store, otherVars, fileVars
<1>4. /\ modules[a].version = lastLoaded /\ lastLoaded \in good
      /\ modules[a].valid /\ successful = 1 /\ timestamp = lastLoaded /\ ~lastFailed
  BY <1>1, <1>2 DEF IInv, Ordered, Gauges, Read, Built, Store
<1>5. /\ live \in Int /\ lastLoaded \in Int /\ lastLoaded # NoConfig /\ live <= lastLoaded
      /\ \A b \in Actors : modules[b].version \in Int
  BY <1>4, BoundsAssumption DEF IInv, TypeOK, Ordered, Versions, Files, NoConfig
<1>6. Ordered'
  <2>1. (live <= lastLoaded /\ lastLoaded <= file.version)'
    BY <1>3, <1>4, <1>5 DEF IInv, Ordered
  <2>2. (During(Read) => modules[loader].version = lastLoaded)'
    BY <1>1, <1>3, <1>4
  <2>3. (live = NoConfig <=> \/ main = "flags"
                             \/ main = "load" /\ ~(reload[Main] = "loaded" /\ modules[Main].valid))'
    BY <1>1, <1>2, <1>3, <1>4, <1>5
  <2>4. (live = NoConfig \/ live \in good)'
    BY <1>3, <1>4
  <2>5. (/\ file.valid <=> file.version \in good
         /\ \A v \in good : v <= file.version
         /\ \A b \in Actors : /\ modules[b].version <= file.version
                              /\ modules[b].valid => modules[b].version \in good)'
    BY <1>3 DEF IInv, Ordered
  <2> QED
    BY <2>1, <2>2, <2>3, <2>4, <2>5, Zenon DEF Ordered
<1>7. Gauges'
  BY <1>1, <1>3, <1>4 DEF Gauges
<1>8. Promised'
  <2> SUFFICES ASSUME NEW p \in Posters PROVE PromisedTo(p)'
    BY DEF Promised
  <2>1. CASE p = a
    BY <1>1, <1>3, <1>5, <2>1, ActorsDiffer DEF IInv, Promised, PromisedTo, Read, Store
  <2>2. CASE p # a
    <3>1. p \in Actors /\ live' >= live /\ modules[p].version \in Int /\ live' \in Int
      BY <1>3, <1>4, <1>5, ActorsDiffer
    <3>2. live >= modules[p].version => live' >= modules[p].version
      BY <1>5, <3>1
    <3> QED
      BY <1>1, <1>3, <2>2, <3>1, <3>2 DEF IInv, Promised, PromisedTo
  <2> QED
    BY <2>1, <2>2
<1> QED
  BY <1>1, <1>3, <1>4, <1>5, <1>6, <1>7, <1>8 DEF IInv

\* Where an actor moves to changes no other actor's position.
LEMMA OtherActors ==
  ASSUME IInv, NEW a \in Actors, NEW s, reload' = [reload EXCEPT ![a] = s]
  PROVE  /\ reload'[a] = s
         /\ \A b \in Actors : b # a => reload'[b] = reload[b]
BY DEF IInv, TypeOK

\* The mutex is free, so nobody else is inside reload.
LEMMA LockStep ==
  ASSUME IInv, TypeOK', NEW a \in Actors, Lock(a)
  PROVE  IInv'
<1>0. /\ reload[a] = "lock" /\ mu = Nobody /\ mu' = a
      /\ reload' = [reload EXCEPT ![a] = "load"]
      /\ UNCHANGED <<fileVars, live, successful, timestamp, modules, status, lastLoaded,
                     lastFailed, loop, main, server, asked>>
  BY DEF Lock, unlocked, otherVars, serveVars, liveVars
<1>1. /\ reload'[a] = "load"
      /\ \A b \in Actors : b # a => reload'[b] = reload[b]
  BY <1>0, OtherActors
<1>2. a # Main /\ main \notin Starting /\ a # Nobody
  BY <1>0, ActorsDiffer DEF IInv, TypeOK, Exclusion, Inside, Starting
<1>3. loader = Nobody /\ loader' = a
  BY <1>0, <1>2 DEF loader, Starting
<1>4. /\ \A S : ~During(S)
      /\ \A S : During(S)' <=> "load" \in S
  BY <1>1, <1>2, <1>3 DEF During
<1>5. Exclusion'
  <2>1. (\A b \in Actors \ {Main} : reload[b] \in Inside <=> mu = b)'
    BY <1>0, <1>1, <1>2, ActorsDiffer DEF IInv, Exclusion, Inside
  <2>2. reload'[Main] = reload[Main]
    BY <1>1, <1>2, ActorsDiffer
  <2>3. (loop = "reload" \/ reload[SignalLoop] = "idle")'
    BY <1>0, <1>1, ActorsDiffer DEF IInv, Exclusion
  <2> QED
    BY <1>0, <1>2, <2>1, <2>2, <2>3 DEF IInv, Exclusion, Starting
<1>6. Ordered'
  <2>1. (During(Read) => modules[loader].version = lastLoaded)'
    BY <1>4 DEF Read
  <2>2. reload'[Main] = reload[Main]
    BY <1>1, <1>2, ActorsDiffer
  <2> QED
    BY <1>0, <2>1, <2>2 DEF IInv, Ordered, fileVars
<1>7. Gauges'
  BY <1>0, <1>4 DEF IInv, Gauges, Built
<1>8. Promised'
  <2> SUFFICES ASSUME NEW p \in Posters PROVE PromisedTo(p)'
    BY DEF Promised
  <2>1. CASE p = a
    BY <1>0, <1>1, <2>1 DEF IInv, Promised, PromisedTo, Read, fileVars
  <2>2. CASE p # a
    BY <1>0, <1>1, <2>2, ActorsDiffer DEF IInv, Promised, PromisedTo, fileVars
  <2> QED
    BY <2>1, <2>2
<1> QED
  BY <1>5, <1>6, <1>7, <1>8 DEF IInv

\* A POST is answered for what it read; the mutex is free again.
LEMMA UnlockStep ==
  ASSUME IInv, TypeOK', NEW a \in Actors, Unlock(a)
  PROVE  IInv'
<1> DEFINE s == IF a = SignalLoop THEN "idle" ELSE "done"
<1>0. /\ a # Main /\ reload[a] = "loaded" /\ mu' = Nobody
      /\ reload' = [reload EXCEPT ![a] = s]
      /\ UNCHANGED <<fileVars, live, successful, timestamp, modules, lastLoaded, lastFailed,
                     main, server, asked>>
      /\ a # SignalLoop => s = "done" /\ loop' = loop
      /\ a = SignalLoop => s = "idle" /\ status' = status
      /\ a # SignalLoop => status' = [status EXCEPT ![a] = statusCode(modules[a])]
  BY DEF Unlock, released, otherVars, serveVars, liveVars
<1> HIDE DEF s
<1>1. /\ reload'[a] = s
      /\ \A b \in Actors : b # a => reload'[b] = reload[b]
  BY <1>0, OtherActors
<1>2. main \notin Starting /\ mu = a /\ loader = a /\ a # Nobody
  <2>1. main # "load" /\ main # "flags" /\ loader = a /\ a # Nobody
    BY <1>0, InsideIsLoader DEF Inside
  <2> QED
    BY <2>1 DEF loader, Starting
<1>3. loader' = Nobody
  BY <1>0, <1>2 DEF loader, Starting
<1>4. /\ \A S : During(S) <=> "loaded" \in S
      /\ \A S : ~During(S)'
  BY <1>0, <1>2, <1>3 DEF During
<1>5. Exclusion'
  <2>1. (\A b \in Actors \ {Main} : reload[b] \in Inside <=> mu = b)'
    BY <1>0, <1>1, <1>2, ActorsDiffer DEF IInv, Exclusion, Inside
  <2>2. reload'[Main] = reload[Main]
    BY <1>0, <1>1, ActorsDiffer
  <2>3. (loop = "reload" \/ reload[SignalLoop] = "idle")'
    BY <1>0, <1>1, ActorsDiffer DEF IInv, Exclusion
  <2> QED
    BY <1>0, <1>2, <2>1, <2>2, <2>3, ActorsDiffer DEF IInv, Exclusion, Starting
<1>6. Ordered'
  <2>1. reload'[Main] = reload[Main]
    BY <1>0, <1>1, ActorsDiffer
  <2> QED
    BY <1>0, <1>4, <2>1 DEF IInv, Ordered, fileVars
<1>7. Gauges'
  BY <1>0, <1>4 DEF IInv, Gauges
<1>8. Promised'
  <2> SUFFICES ASSUME NEW p \in Posters PROVE PromisedTo(p)'
    BY DEF Promised
  <2>1. CASE p = a
    <3>1. p \in Actors /\ p # SignalLoop /\ reload'[p] = "done" /\ p \in DOMAIN status
      BY <1>0, <1>1, <2>1, ActorsDiffer DEF IInv, TypeOK
    <3>2. status'[p] = IF modules[p].valid THEN 200 ELSE 500
      BY <1>0, <2>1, <3>1 DEF statusCode
    <3> QED
      BY <1>0, <2>1, <3>1, <3>2 DEF IInv, Promised, PromisedTo, Read, fileVars
  <2>2. CASE p # a
    <3>1. status'[p] = status[p]
      BY <1>0, <2>2 DEF IInv, TypeOK
    <3> QED
      BY <1>0, <1>1, <2>2, <3>1, ActorsDiffer DEF IInv, Promised, PromisedTo, fileVars
  <2> QED
    BY <2>1, <2>2
<1> QED
  BY <1>5, <1>6, <1>7, <1>8 DEF IInv

-----------------------------------------------------------------------------
(***************************************************************************)
(* The other steps.                                                        *)
(***************************************************************************)
\* An idle actor asks for a reload.
LEMMA AskStep ==
  ASSUME IInv, TypeOK', NEW a \in Actors \ {Main}, reload[a] = "idle", main \notin Starting,
         reload' = [reload EXCEPT ![a] = "lock"],
         a = SignalLoop => loop' = "reload",
         a # SignalLoop => loop' = loop,
         \A p \in Posters : asked'[p] <= file.version /\ (p # a => asked'[p] = asked[p]),
         UNCHANGED <<fileVars, liveVars, mu, modules, status, lastLoaded, lastFailed, main>>
  PROVE  IInv'
<1>1. /\ reload'[a] = "lock"
      /\ \A b \in Actors : b # a => reload'[b] = reload[b]
  BY OtherActors
<1>2. loader = mu /\ loader' = mu /\ mu # a
  BY DEF IInv, Exclusion, loader, Starting, Inside
<1>3. \A S : (During(S)' <=> During(S)) \/ mu \notin Actors \cup {Nobody}
  BY <1>1, <1>2 DEF During
<1>4. \A S : During(S)' <=> During(S)
  BY <1>3 DEF IInv, TypeOK
<1>5. Exclusion'
  <2>1. (\A b \in Actors \ {Main} : reload[b] \in Inside <=> mu = b)'
    BY <1>1, <1>2 DEF IInv, Exclusion, Inside
  <2>2. reload'[Main] = reload[Main]
    BY <1>1, ActorsDiffer
  <2>3. (loop = "reload" \/ reload[SignalLoop] = "idle")'
    BY <1>1, ActorsDiffer DEF IInv, Exclusion
  <2> QED
    BY <2>1, <2>2, <2>3 DEF IInv, Exclusion, Starting
<1>6. Ordered'
  <2>1. reload'[Main] = reload[Main]
    BY <1>1, ActorsDiffer
  <2> QED
    BY <1>2, <1>4, <2>1 DEF IInv, Ordered, fileVars, liveVars
<1>7. Gauges'
  BY <1>2, <1>4 DEF IInv, Gauges, liveVars
<1>8. Promised'
  <2> SUFFICES ASSUME NEW p \in Posters PROVE PromisedTo(p)'
    BY DEF Promised
  <2>1. CASE p = a
    BY <1>1, <2>1 DEF IInv, Promised, PromisedTo, Read, fileVars
  <2>2. CASE p # a
    BY <1>1, <2>2, ActorsDiffer DEF IInv, Promised, PromisedTo, fileVars, liveVars
  <2> QED
    BY <2>1, <2>2
<1> QED
  BY <1>5, <1>6, <1>7, <1>8 DEF IInv

\* A POST notes the version of the file at its arrival.
LEMMA PostStep ==
  ASSUME IInv, TypeOK', NEW p \in Posters, Post(p)
  PROVE  IInv'
<1>1. /\ reload[p] = "idle" /\ reload' = [reload EXCEPT ![p] = "lock"]
      /\ loop' = loop
      /\ UNCHANGED <<fileVars, liveVars, mu, modules, status, lastLoaded, lastFailed, main>>
  BY DEF Post
<1>2. main \notin Starting
  BY DEF Post, IInv, Exclusion
<1>3. \A q \in Posters : asked'[q] <= file.version /\ (q # p => asked'[q] = asked[q])
  <2>1. file.version <= file.version
    BY BoundsAssumption DEF IInv, TypeOK, Files, Versions
  <2>2. /\ asked'[p] = file.version
        /\ \A q \in Posters : q # p => asked'[q] = asked[q]
    BY DEF Post, IInv, TypeOK
  <2> QED
    BY <2>1, <2>2 DEF IInv, Promised, PromisedTo
<1> QED
  BY <1>1, <1>2, <1>3, AskStep, ActorsDiffer

\* A SIGHUP makes the signal goroutine ask for a reload, SIGTERM does not concern it.
LEMMA LoopReceivesStep ==
  ASSUME IInv, TypeOK', LoopReceives
  PROVE  IInv'
<1>1. /\ loop = "select" /\ main \notin Starting /\ reload[SignalLoop] = "idle"
      /\ UNCHANGED <<fileVars, liveVars, mu, modules, status, lastLoaded, lastFailed, main,
                     server, asked>>
  BY DEF LoopReceives, IInv, Exclusion, Starting, serveVars
<1>2. CASE sigCh = "SIGHUP"
  <2>1. loop' = "reload" /\ reload' = [reload EXCEPT ![SignalLoop] = "lock"]
    BY <1>2 DEF LoopReceives
  <2>2. \A p \in Posters : asked'[p] <= file.version /\ asked'[p] = asked[p]
    BY <1>1 DEF IInv, Promised, PromisedTo
  <2> QED
    BY <1>1, <2>1, <2>2, AskStep, ActorsDiffer
<1>3. CASE sigCh # "SIGHUP"
  <2>1. loop' = "terminate" /\ reload' = reload
    BY <1>3 DEF LoopReceives
  <2>2. Exclusion'
    BY <1>1, <2>1 DEF IInv, Exclusion, Starting
  <2>3. Ordered' /\ Gauges' /\ Promised'
    BY <1>1, <2>1, Frame DEF core
  <2> QED
    BY <2>2, <2>3 DEF IInv
<1> QED
  BY <1>2, <1>3

\* A new version of the file is newer than everything that was read.
LEMMA EditStep ==
  ASSUME IInv, TypeOK', NEW valid \in BOOLEAN, Edit(valid)
  PROVE  IInv'
<1>1. /\ file'.version = file.version + 1 /\ file'.valid = valid
      /\ good' = IF valid THEN good \cup {file.version + 1} ELSE good
      /\ UNCHANGED <<live, successful, timestamp, mu, reload, modules, status, lastLoaded,
                     lastFailed, main, loop, server, asked>>
  BY DEF Edit, reloadVars, liveVars, serveVars
<1>2. /\ file.version \in Int /\ live \in Int /\ lastLoaded \in Int /\ good \subseteq Int
      /\ \A a \in Actors : modules[a].version \in Int
      /\ \A p \in Posters : asked[p] \in Int
  BY BoundsAssumption DEF IInv, TypeOK, Versions, Files, NoConfig
<1>3. loader' = loader /\ \A S : During(S)' <=> During(S)
  BY <1>1 DEF loader, During
<1>4. Exclusion'
  BY <1>1 DEF IInv, Exclusion
<1>5. Ordered'
  <2>1. file.version + 1 \notin good
    BY <1>2 DEF IInv, Ordered
  <2>2. (file.valid <=> file.version \in good)'
    BY <1>1, <2>1
  <2>3. (\A v \in good : v <= file.version)'
    <3>1. \A v \in good : v <= file.version
      BY DEF IInv, Ordered
    <3>2. ASSUME NEW v \in good
          PROVE  v <= file.version + 1
      <4>1. v \in Int /\ file.version \in Int /\ v <= file.version
        BY <1>2, <3>1
      <4> QED
        BY <4>1
    <3>3. file.version + 1 <= file.version + 1
      BY <1>2
    <3>4. good' \subseteq good \cup {file.version + 1}
      BY <1>1
    <3> QED
      BY <1>1, <3>2, <3>3, <3>4
  <2>4. ASSUME NEW a \in Actors
        PROVE  (/\ modules[a].version <= file.version
                /\ modules[a].valid => modules[a].version \in good)'
    <3>1. modules[a].version <= file.version /\ modules[a].version \in Int
      BY <1>2 DEF IInv, Ordered
    <3>2. modules[a].version # file.version + 1 /\ modules[a].version <= file.version + 1
      BY <1>2, <3>1
    <3> QED
      BY <1>1, <3>2 DEF IInv, Ordered
  <2>5. (live <= lastLoaded /\ lastLoaded <= file.version)'
    BY <1>1, <1>2 DEF IInv, Ordered
  <2>6. (live = NoConfig \/ live \in good)'
    BY <1>1 DEF IInv, Ordered
  <2>7. (During(Read) => modules[loader].version = lastLoaded)'
    BY <1>1, <1>3 DEF IInv, Ordered
  <2>8. (live = NoConfig <=> \/ main = "flags"
                             \/ main = "load" /\ ~(reload[Main] = "loaded" /\ modules[Main].valid))'
    BY <1>1 DEF IInv, Ordered
  <2> QED
    BY <2>2, <2>3, <2>4, <2>5, <2>6, <2>7, <2>8, Zenon DEF Ordered
<1>6. Gauges'
  BY <1>1, <1>3 DEF IInv, Gauges
<1>7. Promised'
  <2> SUFFICES ASSUME NEW p \in Posters PROVE PromisedTo(p)'
    BY DEF Promised
  <2>1. asked[p] <= file.version + 1
    BY <1>2 DEF IInv, Promised, PromisedTo
  <2> QED
    BY <1>1, <2>1 DEF IInv, Promised, PromisedTo
<1> QED
  BY <1>4, <1>5, <1>6, <1>7 DEF IInv

\* Nobody holds the mutex before serve starts.
LEMMA NobodyBeforeServe ==
  ASSUME IInv, main \in Starting
  PROVE  mu = Nobody
BY DEF IInv, TypeOK, Exclusion, Inside

\* Main enters or leaves its load.
LEMMA MainStep ==
  ASSUME IInv, TypeOK', main \in Starting, NEW s, reload' = [reload EXCEPT ![Main] = s],
         UNCHANGED <<fileVars, liveVars, mu, modules, status, lastLoaded, lastFailed, asked>>,
         \/ main = "flags" /\ main' = "load" /\ s = "load" /\ UNCHANGED <<server, loop>>
         \/ main' = "serving" /\ s = "done" /\ reload[Main] = "loaded" /\ live # NoConfig
            /\ server' = server
  PROVE  IInv'
<1>1. /\ reload'[Main] = s
      /\ \A b \in Actors : b # Main => reload'[b] = reload[b]
  BY OtherActors, ActorsDiffer
<1>2. /\ \A S : During(S) <=> main = "load" /\ reload[Main] \in S
      /\ \A S : During(S)' <=> main' = "load" /\ s \in S
      /\ loader' \in {Main, Nobody}
  BY <1>1, NobodyBeforeServe, ActorsDiffer DEF During, loader
<1>3. \A b \in Actors \ {Main} : reload[b] = "idle"
  BY DEF IInv, Exclusion
<1>4. Exclusion'
  <2>1. (\A b \in Actors \ {Main} : reload[b] \in Inside <=> mu = b)'
    BY <1>1 DEF IInv, Exclusion
  <2>2. (loop = "reload" \/ reload[SignalLoop] = "idle")'
    BY <1>1, <1>3, ActorsDiffer
  <2> QED
    BY <1>1, <2>1, <2>2 DEF IInv, Exclusion, Inside, Starting
<1>5. Ordered'
  BY <1>1, <1>2 DEF IInv, Ordered, Read, Starting, fileVars, liveVars
<1>6. Gauges'
  <2>1. ~During({"store"}) /\ ~During({"store"})'
    BY <1>2
  <2>2. live # NoConfig => ~During({"record"}) /\ ~During({"build", "record", "store"})
    BY <1>2 DEF IInv, Ordered
  <2>3. ~During(Built)'
    BY <1>2 DEF Built
  <2> QED
    BY <2>1, <2>2, <2>3 DEF IInv, Gauges, liveVars
<1>7. Promised'
  BY <1>1, ActorsDiffer DEF IInv, Promised, PromisedTo, fileVars, liveVars
<1> QED
  BY <1>4, <1>5, <1>6, <1>7 DEF IInv

\* A step that concerns neither the reloader nor start-up.
LEMMA OtherStep ==
  ASSUME IInv, TypeOK', UNCHANGED core,
         main' = main \/ (main = "serving" /\ main' = "closeStop")
                      \/ (main = "closeStop" /\ main' = "waiting"),
         server' = server \/ main \notin Starting,
         loop' = loop \/ (loop # "none" /\ reload[SignalLoop] = "idle")
  PROVE  IInv'
<1>1. Exclusion'
  BY DEF IInv, Exclusion, Starting, core
<1>2. Ordered' /\ Gauges' /\ Promised'
  BY Frame DEF Starting
<1> QED
  BY <1>1, <1>2 DEF IInv

\* IInv is inductive, and no step takes the live configuration back.
LEMMA Step ==
  ASSUME IInv, [Next]_vars
  PROVE  IInv' /\ live' >= live
<1>0. TypeOK'
  BY TypeStep DEF IInv
<1>1. live >= live
  BY BoundsAssumption DEF IInv, TypeOK, Versions, NoConfig
<1>2. CASE \E valid \in BOOLEAN : Edit(valid)
  BY <1>0, <1>1, <1>2, EditStep DEF Edit, reloadVars, liveVars
<1>3. CASE \E p \in Posters : Post(p)
  BY <1>0, <1>1, <1>3, PostStep DEF Post, liveVars
<1>4. CASE \E a \in Actors : Lock(a)
  BY <1>0, <1>1, <1>4, LockStep DEF Lock, liveVars
<1>5. CASE \E a \in Actors : Load(a)
  BY <1>0, <1>1, <1>5, LoadStep DEF Load, liveVars
<1>5a. CASE \E a \in Actors : Build(a)
  BY <1>0, <1>1, <1>5a, BuildStep DEF Build, liveVars
<1>6. CASE \E a \in Actors : Record(a)
  BY <1>0, <1>1, <1>6, RecordStep DEF Record
<1>7. CASE \E a \in Actors : Store(a)
  BY <1>0, <1>7, StoreStep
<1>8. CASE \E a \in Actors : Unlock(a)
  BY <1>0, <1>1, <1>8, UnlockStep DEF Unlock, liveVars
<1>9. CASE LoopReceives
  BY <1>0, <1>1, <1>9, LoopReceivesStep DEF LoopReceives, liveVars
<1>10. CASE ParseFlags
  <2>1. CASE \E code \in {0, 1} : Exit(code)
    BY <1>0, <1>1, <2>1, OtherStep DEF Exit, core, reloadVars, liveVars, serveVars
  <2>2. CASE ~\E code \in {0, 1} : Exit(code)
    <3>1. /\ main = "flags" /\ main' = "load"
          /\ reload' = [reload EXCEPT ![Main] = "load"]
          /\ UNCHANGED <<fileVars, liveVars, mu, modules, status, lastLoaded, lastFailed, asked,
                         server, loop>>
      BY <1>10, <2>2, Zenon DEF ParseFlags, serveVars
    <3>2. IInv'
      BY <1>0, <3>1, MainStep DEF Starting
    <3> QED
      BY <1>1, <3>1, <3>2 DEF liveVars
  <2> QED
    BY <2>1, <2>2
<1>11. CASE StartServe
  <2>1. /\ main' = "serving" /\ reload[Main] = "loaded" /\ live # NoConfig
        /\ reload' = [reload EXCEPT ![Main] = "done"]
        /\ UNCHANGED <<fileVars, liveVars, mu, modules, status, lastLoaded, lastFailed, asked,
                       server>>
    BY <1>11, Zenon DEF StartServe, serveVars
  <2>2. main \in Starting
    BY <2>1 DEF IInv, TypeOK, Exclusion
  <2>3. IInv'
    BY <1>0, <2>1, <2>2, MainStep
  <2> QED
    BY <1>1, <2>1, <2>3 DEF liveVars
<1>12. CASE \/ \E sig \in {"SIGHUP", "SIGTERM"} : Signal(sig)
            \/ SlowRequest \/ FirstLoadFails \/ checkConfig \/ ServeReturns \/ UNCHANGED vars
  <2>1. UNCHANGED <<core, main, server, loop>>
    BY <1>12 DEF Signal, SlowRequest, FirstLoadFails, checkConfig, ServeReturns, Exit, vars, core,
                 reloadVars, serveVars
  <2> QED
    BY <1>0, <1>1, <2>1, OtherStep DEF core, liveVars
<1>13. CASE Listen \/ CloseStop \/ \E failed \in BOOLEAN : ListenReturns(failed)
  <2>1. /\ UNCHANGED <<core, loop>>
        /\ \/ main = "serving" /\ main' = main
           \/ main = "serving" /\ main' = "closeStop" /\ server' = server
           \/ main = "closeStop" /\ main' = "waiting" /\ server' = server
    BY <1>13 DEF Listen, CloseStop, ListenReturns, core, reloadVars
  <2> QED
    BY <1>0, <1>1, <2>1, OtherStep DEF core, liveVars, Starting
<1>14. CASE \/ LoopStops \/ StopSignals \/ BeginShutdown
            \/ \E timedOut \in BOOLEAN : EndShutdown(timedOut)
  <2>1. /\ UNCHANGED <<core, main>>
        /\ loop \in {"select", "terminate", "shutdown", "draining"}
    BY <1>14 DEF LoopStops, StopSignals, BeginShutdown, EndShutdown, core, reloadVars
  <2>2. main \notin Starting /\ reload[SignalLoop] = "idle"
    BY <2>1 DEF IInv, Exclusion
  <2> QED
    BY <1>0, <1>1, <2>1, <2>2, OtherStep DEF core, liveVars
<1> QED
  BY NextCases, <1>2, <1>3, <1>4, <1>5, <1>5a, <1>6, <1>7, <1>8, <1>9, <1>10, <1>11, <1>12,
                <1>13, <1>14

-----------------------------------------------------------------------------
(***************************************************************************)
(* The theorems.                                                           *)
(***************************************************************************)
\* Every variable keeps its type, for any number of POSTs, edits and signals.
THEOREM TypeCorrect == Spec => []TypeOK
<1>1. Init => TypeOK
  BY InitIInv DEF IInv
<1>2. TypeOK /\ [Next]_vars => TypeOK'
  BY TypeStep
<1> QED
  BY <1>1, <1>2, PTL DEF Spec

\* The inductive invariant.
THEOREM Invariance == Spec => []IInv
<1>1. Init => IInv
  BY InitIInv
<1>2. IInv /\ [Next]_vars => IInv'
  BY Step
<1> QED
  BY <1>1, <1>2, PTL DEF Spec

\* Reloads never go back to an older configuration (main.go:159-173).
THEOREM NeverGoesBack == Spec => LiveNeverGoesBack
<1>1. IInv /\ [Next]_vars => [live' >= live]_vars
  BY Step
<1> QED
  BY <1>1, Invariance, PTL DEF Spec, LiveNeverGoesBack

\* Whenever no reload is under way the gauges tell how the last load ended and when what is
\* live was loaded (main.go:120-149).
THEOREM GaugesAreTrue == Spec => []GaugeTellsLiveIsLatest
<1>1. IInv => GaugeTellsLiveIsLatest
  <2> SUFFICES ASSUME IInv, mu = Nobody, live # NoConfig
               PROVE  /\ successful = IF lastFailed THEN 0 ELSE 1
                      /\ successful = 1 => live = lastLoaded
                      /\ timestamp = live
    BY DEF GaugeTellsLiveIsLatest
  <2>1. /\ ~During({"store"}) /\ ~During({"record"})
        /\ ~During({"build", "record", "store"})
    BY DEF During, loader, IInv, Ordered, Exclusion, Inside
  <2>2. CASE lastFailed
    BY <2>1, <2>2 DEF IInv, Gauges
  <2>3. CASE ~lastFailed
    BY <2>1, <2>3 DEF IInv, Gauges
  <2> QED
    BY <2>2, <2>3
<1> QED
  BY <1>1, Invariance, PTL

\* The answer to a POST is true (main.go:163-186).
THEOREM AnswersAreTrue == Spec => []ReloadAnswerIsTrue
<1>1. IInv => ReloadAnswerIsTrue
  <2> SUFFICES ASSUME IInv, NEW p \in Posters
               PROVE  /\ status[p] = 200 => live >= asked[p]
                      /\ status[p] = 500 => ~modules[p].valid /\ modules[p].version >= asked[p]
    BY DEF ReloadAnswerIsTrue
  <2>1. live \in Int /\ asked[p] \in Int /\ modules[p].version \in Int
    BY BoundsAssumption, ActorsDiffer DEF IInv, TypeOK, Versions, Files, NoConfig
  <2>2. PromisedTo(p)
    BY DEF IInv, Promised
  <2>3. CASE reload[p] # "done"
    BY <2>2, <2>3 DEF PromisedTo
  <2>4. CASE reload[p] = "done" /\ modules[p].valid
    BY <2>1, <2>2, <2>4 DEF PromisedTo
  <2>5. CASE reload[p] = "done" /\ ~modules[p].valid
    BY <2>2, <2>5 DEF PromisedTo
  <2> QED
    BY <2>3, <2>4, <2>5
<1> QED
  BY <1>1, Invariance, PTL

\* No request is in flight before serve starts.
QuietStart == main \in Starting => slow = "idle"

\* A request is accepted only once the server listens, which serve starts.
LEMMA QuietStep ==
  ASSUME IInv, QuietStart, [Next]_vars
  PROVE  QuietStart'
<1>1. CASE SlowRequest
  BY <1>1 DEF SlowRequest, QuietStart, IInv, Exclusion
<1>2. CASE ~SlowRequest
  <2>1. slow' = slow
    BY <1>2, NextCases DEF Edit, Signal, Post, ListenReturns, Lock, Load, Build, Record, Store,
          Unlock, LoopStops, LoopReceives, StopSignals, BeginShutdown, EndShutdown, ParseFlags,
          FirstLoadFails, checkConfig, StartServe, Listen, CloseStop, ServeReturns, Exit, otherVars,
          vars
  <2>2. main' \in Starting => main \in Starting
    BY <1>2, NextCases DEF Edit, Signal, Post, ListenReturns, Lock, Load, Build, Record, Store,
          Unlock, LoopStops, LoopReceives, StopSignals, BeginShutdown, EndShutdown, ParseFlags,
          FirstLoadFails, checkConfig, StartServe, Listen, CloseStop, ServeReturns, Exit, vars,
          Starting
  <2> QED
    BY <2>1, <2>2 DEF QuietStart
<1> QED
  BY <1>1, <1>2

\* Whenever a request can be received or is in flight, the configuration in use is one
\* that was valid (main.go:204-206, 284-299).
THEOREM AlwaysReady == Spec => []ServesAValidConfig
<1>1. Init => QuietStart
  BY DEF Init, QuietStart
<1>2. IInv /\ QuietStart /\ [Next]_vars => QuietStart'
  BY QuietStep
<1>3. IInv /\ QuietStart => ServesAValidConfig
  <2> SUFFICES ASSUME IInv, QuietStart, server = "serving" \/ Active
               PROVE  live \in good
    BY DEF ServesAValidConfig
  <2>1. main \notin Starting
    BY ActorsDiffer DEF IInv, Exclusion, QuietStart, Active
  <2> QED
    BY <2>1 DEF IInv, Ordered, Starting
<1> QED
  BY <1>1, <1>2, <1>3, Invariance, PTL DEF Spec

\* The requests in flight when the process ends: after the drain there are none, and none
\* arrive once the listener is closed (main.go:247-271).
Drain ==
    /\ (server = "shutdown" /\ loop = "exited" /\ ~shutdownErr) => ~Active
    /\ loop = "draining" => server = "shutdown"
    /\ server = "shutdown" => loop \in {"draining", "exited"}
    /\ (main \in {"closeStop", "waiting"} /\ ~listenErr) => server = "shutdown"
    /\ exit = 0 => main \in Starting \/ (main = "waiting" /\ loop = "exited" /\ ~listenErr)
    /\ main \in Starting => ~Active

\* A step that lets no request in and leaves serve alone keeps the drain.
LEMMA DrainFrame ==
  ASSUME Drain, Active' => Active, UNCHANGED <<server, loop, main, shutdownErr, listenErr, exit>>
  PROVE  Drain'
BY DEF Drain

\* Steps of a reload neither begin nor end a request, but for the last.
LEMMA ReloadKeepsActive ==
  ASSUME IInv, NEW a \in Actors, NEW s, reload' = [reload EXCEPT ![a] = s], slow' = slow,
         reload[a] \notin {"idle", "done"} \/ s \in {"idle", "done"} \/ a \notin Posters
  PROVE  Active' => Active
<1>1. \A p \in Posters : p # a => reload'[p] = reload[p]
  BY OtherActors, ActorsDiffer
<1>2. reload'[a] = s
  BY OtherActors
<1> QED
  BY <1>1, <1>2 DEF Active

\* The drain is kept by every step.
LEMMA DrainStep ==
  ASSUME IInv, Drain, [Next]_vars
  PROVE  Drain'
<1>1. CASE \/ \E valid \in BOOLEAN : Edit(valid)
           \/ UNCHANGED vars
  <2>1. UNCHANGED <<server, loop, main, shutdownErr, listenErr, exit, slow, reload>>
    BY <1>1 DEF Edit, vars, reloadVars, serveVars
  <2> QED
    BY <2>1, DrainFrame DEF Active
<1>2. CASE \E sig \in {"SIGHUP", "SIGTERM"} : Signal(sig)
  <2>1. UNCHANGED <<server, loop, main, shutdownErr, listenErr, slow, reload>>
        /\ exit' # 0
    BY <1>2 DEF Signal, reloadVars, serveVars, Running, Killed
  <2> QED
    BY <2>1 DEF Drain, Active
<1>3. CASE (\E p \in Posters : Post(p)) \/ SlowRequest
  <2>1. UNCHANGED <<server, loop, main, shutdownErr, listenErr, exit>> /\ exit # 0
    BY <1>3 DEF Post, SlowRequest, serveVars, Running
  <2>2. CASE server = "serving"
    <3>1. main \notin Starting
      BY <2>2 DEF IInv, Exclusion
    <3> QED
      BY <2>1, <2>2, <3>1 DEF Drain
  <2>3. CASE server # "serving"
    <3>1. slow' = "done" /\ reload' = reload
      BY <1>3, <2>3 DEF Post, SlowRequest, reloadVars
    <3> QED
      BY <2>1, <3>1, DrainFrame DEF Active
  <2> QED
    BY <2>2, <2>3
<1>4. CASE \E a \in Actors : Lock(a) \/ Load(a) \/ Build(a) \/ Record(a) \/ Store(a)
  <2> PICK a \in Actors : Lock(a) \/ Load(a) \/ Build(a) \/ Record(a) \/ Store(a)
    BY <1>4
  <2>1. /\ UNCHANGED <<server, loop, main, shutdownErr, listenErr, exit, slow>>
        /\ \E s : reload' = [reload EXCEPT ![a] = s]
        /\ reload[a] \notin {"idle", "done"}
    BY DEF Lock, Load, Build, Record, Store, otherVars, serveVars
  <2> QED
    BY <2>1, ReloadKeepsActive, DrainFrame
<1>5. CASE \E a \in Actors : Unlock(a)
  <2> PICK a \in Actors : Unlock(a)
    BY <1>5
  <2>1. /\ UNCHANGED <<server, main, shutdownErr, listenErr, exit, slow>> /\ exit # 0
        /\ reload' = [reload EXCEPT ![a] = IF a = SignalLoop THEN "idle" ELSE "done"]
        /\ reload[a] = "loaded"
        /\ loop' = IF a = SignalLoop THEN "select" ELSE loop
    BY DEF Unlock, otherVars, serveVars, Running
  <2>2. Active' => Active
    BY <2>1, ReloadKeepsActive
  <2>3. a = SignalLoop => loop = "reload"
    BY <2>1 DEF IInv, Exclusion
  <2> QED
    BY <2>1, <2>2, <2>3 DEF Drain
<1>6. CASE LoopStops \/ LoopReceives \/ StopSignals
  <2>1. /\ UNCHANGED <<server, main, shutdownErr, listenErr, exit, slow>> /\ exit # 0
        /\ loop \in {"select", "terminate"}
        /\ loop' \in {"exited", "reload", "terminate", "shutdown"}
        /\ reload' = reload \/ reload' = [reload EXCEPT ![SignalLoop] = "lock"]
    BY <1>6 DEF LoopStops, LoopReceives, StopSignals, serveVars, reloadVars, Running
  <2>2. Active' => Active
    BY <2>1, ReloadKeepsActive, ActorsDiffer DEF Active
  <2> QED
    BY <2>1, <2>2 DEF Drain
<1>7. CASE BeginShutdown
  <2>1. /\ UNCHANGED <<main, shutdownErr, listenErr, exit, slow, reload>> /\ exit # 0
        /\ loop = "shutdown" /\ loop' = "draining" /\ server' = "shutdown"
    BY <1>7 DEF BeginShutdown, reloadVars, Running
  <2> QED
    BY <2>1 DEF Drain, Active
<1>8. CASE Drained \/ ShutdownTimesOut
  <2>1. /\ UNCHANGED <<server, main, listenErr, exit, slow, reload>> /\ exit # 0
        /\ loop = "draining" /\ loop' = "exited"
        /\ shutdownErr' \/ ~Active
    BY <1>8 DEF Drained, ShutdownTimesOut, EndShutdown, reloadVars, Running
  <2> QED
    BY <2>1 DEF Drain, Active
<1>9. CASE ParseFlags \/ FirstLoadFails \/ checkConfig
  <2>1. main \in Starting
    BY <1>9 DEF ParseFlags, FirstLoadFails, checkConfig, IInv, TypeOK, Exclusion, Starting
  <2>2. /\ UNCHANGED <<server, loop, shutdownErr, listenErr, slow>>
        /\ main' \in Starting
        /\ reload' = reload \/ reload' = [reload EXCEPT ![Main] = "load"]
    BY <1>9, <2>1 DEF ParseFlags, FirstLoadFails, checkConfig, Exit, reloadVars, serveVars, Starting
  <2>3. Active' => Active
    BY <2>2, ReloadKeepsActive, ActorsDiffer DEF Active
  <2>4. server # "shutdown"
    BY <2>1 DEF IInv, Exclusion
  <2> QED
    BY <2>1, <2>2, <2>3, <2>4 DEF Drain, Starting
<1>10. CASE StartServe
  <2>1. /\ UNCHANGED <<server, shutdownErr, listenErr, exit, slow>> /\ exit # 0
        /\ main' = "serving" /\ loop' = "select" /\ reload[Main] = "loaded"
    BY <1>10 DEF StartServe, serveVars, Running
  <2>2. server # "shutdown"
    BY <2>1 DEF IInv, Exclusion, TypeOK
  <2> QED
    BY <2>1, <2>2 DEF Drain, Starting
<1>11. CASE Listen \/ CloseStop \/ ServeReturns \/ ListenReturns(FALSE) \/ ListenReturns(TRUE)
  <2>1. /\ UNCHANGED <<loop, shutdownErr, slow, reload>> /\ exit # 0
        /\ \/ /\ UNCHANGED <<main, listenErr, exit>>
              /\ main = "serving" /\ server = "starting" /\ server' = "serving"
           \/ UNCHANGED <<listenErr, exit, server>> /\ main = "closeStop" /\ main' = "waiting"
           \/ /\ UNCHANGED <<main, listenErr, server>> /\ main = "waiting" /\ loop = "exited"
              /\ exit' = 0 => ~listenErr
           \/ /\ UNCHANGED <<exit, server>> /\ main = "serving" /\ main' = "closeStop"
              /\ ~listenErr' => server = "shutdown"
    BY <1>11 DEF Listen, CloseStop, ServeReturns, ListenReturns, Exit, shutdownDone, reloadVars,
                 serveVars, Running
  <2>2. Active' <=> Active
    BY <2>1 DEF Active
  <2> QED
    BY <2>1, <2>2 DEF Drain, Starting
<1> QED
  BY <1>1, <1>2, <1>3, <1>4, <1>5, <1>6, <1>7, <1>8, <1>9, <1>10, <1>11
     DEF Next, Environment, Reload, SignalGoroutine, StartUp, Serve, Ended

\* Unless the drain timed out, the exporter does not exit with success while a request is in
\* flight (main.go:228-230, 261-271).
THEOREM DrainedFirst == Spec => []DrainedBeforeReturn
<1>1. Init => Drain
  BY ActorsDiffer DEF Init, Drain, Active, Starting, Running
<1>2. IInv /\ Drain /\ [Next]_vars => Drain'
  BY DrainStep
<1>3. Drain => DrainedBeforeReturn
  BY DEF Drain, DrainedBeforeReturn
<1> QED
  BY <1>1, <1>2, <1>3, Invariance, PTL DEF Spec
=============================================================================
