------------------------ MODULE LifecycleRefinement ------------------------
(***************************************************************************)
(* The reloader implements AtomicReload, for any number of POSTs, edits    *)
(* and signals: under the mapping of Lifecycle the step Load is the atomic *)
(* read and Build the atomic reload, and every other step asks, returns,   *)
(* edits or is not seen.                                                   *)
(***************************************************************************)
EXTENDS LifecycleProofs

\* What the mapping makes of the variables, but for the answers.
seen == <<file, BeingRead, EffectiveLive, EffectiveSuccessful, EffectiveTimestamp>>

\* Equal values for a client make a step that the atomic reloader does not see.
LEMMA Unseen ==
  ASSUME UNCHANGED seen,
         \A a \in Actors : Answer(a)' = Answer(a)
  PROVE  UNCHANGED Atomic!vars
<1>1. Answers' = Answers
  BY DEF Answers
<1> QED
  BY <1>1 DEF Atomic!vars, seen

\* One actor starts to wait, and nothing else is seen: an Ask.
LEMMA Asks ==
  ASSUME UNCHANGED seen,
         NEW a \in Actors, Answer(a) = "none", Answer(a)' = "waiting",
         \A b \in Actors : b # a => Answer(b)' = Answer(b)
  PROVE  Atomic!Next
<1>1. Answers' = [Answers EXCEPT ![a] = "waiting"] /\ Answers[a] = "none"
  BY DEF Answers
<1>2. Atomic!Ask(a)
  BY <1>1 DEF Atomic!Ask, seen
<1> QED
  BY <1>2 DEF Atomic!Next

\* The answer of an actor depends on its own entries only.
LEMMA SameAnswer ==
  ASSUME NEW a \in Actors, reload'[a] = reload[a], modules'[a] = modules[a],
         a \in Posters => status'[a] = status[a]
  PROVE  Answer(a)' = Answer(a)
BY DEF Answer, Succeeded

\* No reload has read the file without having stored it.
Settled == ~During({"build"}) /\ ~During({"record"}) /\ ~During({"record", "store"})

\* The gauges and the configuration are then as clients see them.
LEMMA WhenSettled ==
  ASSUME Settled
  PROVE  /\ BeingRead = NothingRead
         /\ EffectiveLive = live /\ EffectiveSuccessful = successful
         /\ EffectiveTimestamp = timestamp
BY DEF Settled, BeingRead, EffectiveLive, EffectiveSuccessful, EffectiveTimestamp

\* The same for the next state.
LEMMA WhenSettledNext ==
  ASSUME Settled'
  PROVE  /\ BeingRead' = NothingRead
         /\ EffectiveLive' = live' /\ EffectiveSuccessful' = successful'
         /\ EffectiveTimestamp' = timestamp'
BY DEF Settled, BeingRead, EffectiveLive, EffectiveSuccessful, EffectiveTimestamp, NothingRead

\* A step outside the reloader is not seen.
LEMMA OtherUnseen ==
  ASSUME UNCHANGED core, main' = main \/ (main \notin Starting /\ main' \notin Starting)
  PROVE  UNCHANGED Atomic!vars
<1>1. loader' = loader
  BY DEF loader, core, Starting
<1>2. UNCHANGED seen
  BY <1>1 DEF seen, BeingRead, NothingRead, EffectiveLive, EffectiveSuccessful,
              EffectiveTimestamp, Latest, During, core, fileVars, liveVars
<1>3. \A a \in Actors : Answer(a)' = Answer(a)
  BY SameAnswer DEF core
<1> QED
  BY <1>2, <1>3, Unseen

\* A request for a reload, by POST, by SIGHUP or at start-up, is an Ask.
LEMMA RequestAsks ==
  ASSUME IInv, NEW a \in Actors, NEW s \in {"lock", "load"}, reload[a] = "idle",
         reload' = [reload EXCEPT ![a] = s],
         UNCHANGED <<fileVars, liveVars, mu, modules, status>>,
         \/ a # Main /\ main' = main
         \/ a = Main /\ main = "flags" /\ main' = "load" /\ s = "load"
  PROVE  Atomic!Next
<1>1. /\ reload'[a] = s
      /\ \A b \in Actors : b # a => reload'[b] = reload[b]
  BY OtherActors
<1>2. Answer(a) = "none" /\ Answer(a)' = "waiting"
  BY <1>1 DEF Answer
<1>3. \A b \in Actors : b # a => Answer(b)' = Answer(b)
  BY <1>1, SameAnswer
<1>4. UNCHANGED seen
  <2>1. CASE a # Main
    <3>1. loader' = loader /\ loader # a
      BY <2>1 DEF IInv, Exclusion, Inside, loader
    <3>2. \A S : During(S)' <=> During(S)
      BY <1>1, <3>1 DEF During, loader, IInv, TypeOK
    <3> QED
      BY <2>1, <3>1, <3>2 DEF seen, BeingRead, NothingRead, EffectiveLive, EffectiveSuccessful,
                              EffectiveTimestamp, Latest, fileVars, liveVars
  <2>2. CASE a = Main
    <3>1. mu = Nobody /\ main = "flags" /\ main' = "load" /\ s = "load"
      BY <2>2, NobodyBeforeServe DEF Starting
    <3>2. Settled
      BY <3>1 DEF Settled, During, loader
    <3>3. Settled'
      BY <1>1, <2>2, <3>1 DEF Settled, During, loader
    <3> QED
      BY <3>2, <3>3, WhenSettled, WhenSettledNext DEF seen, fileVars, liveVars
  <2> QED
    BY <2>1, <2>2
<1> QED
  BY <1>2, <1>3, <1>4, Asks

\* Taking the mutex is not seen.
LEMMA LockUnseen ==
  ASSUME IInv, NEW a \in Actors, Lock(a)
  PROVE  UNCHANGED Atomic!vars
<1>0. /\ reload[a] = "lock" /\ mu = Nobody /\ mu' = a
      /\ reload' = [reload EXCEPT ![a] = "load"]
      /\ UNCHANGED <<file, live, successful, timestamp, modules, status, main>>
  BY DEF Lock, unlocked, otherVars, fileVars, liveVars
<1>1. /\ reload'[a] = "load"
      /\ \A b \in Actors : b # a => reload'[b] = reload[b]
  BY <1>0, OtherActors
<1>2. main # "load"
  BY <1>0, ActorsDiffer DEF IInv, Exclusion, Inside, Starting
<1>3. Settled /\ Settled'
  BY <1>0, <1>1, <1>2 DEF Settled, During, loader
<1>4. UNCHANGED seen
  BY <1>0, <1>3, WhenSettled, WhenSettledNext DEF seen
<1>5. \A b \in Actors : Answer(b)' = Answer(b)
  <2>1. Answer(a)' = Answer(a)
    BY <1>0, <1>1 DEF Answer
  <2> QED
    BY <1>0, <1>1, <2>1, SameAnswer
<1> QED
  BY <1>4, <1>5, Unseen

\* Reading the file is the atomic read.
LEMMA LoadReads ==
  ASSUME IInv, NEW a \in Actors, Load(a)
  PROVE  Atomic!Next
<1>0. /\ reload[a] = "load"
      /\ reload' = [reload EXCEPT ![a] = "build"]
      /\ modules' = [modules EXCEPT ![a] = file]
      /\ UNCHANGED <<file, live, successful, timestamp, mu, status, main>>
  BY DEF Load, otherVars, fileVars, liveVars
<1>1. /\ reload'[a] = "build" /\ modules'[a] = file
      /\ \A b \in Actors : b # a => reload'[b] = reload[b] /\ modules'[b] = modules[b]
  BY <1>0, OtherActors DEF IInv, TypeOK
<1>2. loader = a /\ a # Nobody /\ loader' = a
  <2>1. loader = a /\ a # Nobody
    BY <1>0, InsideIsLoader DEF Inside
  <2> QED
    BY <1>0, <2>1 DEF loader
<1>3. Settled
  BY <1>0, <1>2 DEF Settled, During
<1>4. /\ BeingRead' = file
      /\ UNCHANGED <<EffectiveLive, EffectiveSuccessful, EffectiveTimestamp>>
  <2>1. During({"build"})' /\ ~During({"record"})' /\ ~During({"record", "store"})'
    BY <1>1, <1>2 DEF During
  <2>2. modules'[loader'] = file
    BY <1>1, <1>2
  <2> QED
    BY <1>0, <1>3, <2>1, <2>2, WhenSettled
       DEF BeingRead, EffectiveLive, EffectiveSuccessful, EffectiveTimestamp
<1>5. Answers[a] = "waiting"
  BY <1>0 DEF Answers, Answer
<1>6. Answers' = [Answers EXCEPT ![a] = "reading"]
  <2>1. Answer(a)' = "reading"
    BY <1>1 DEF Answer
  <2>2. \A b \in Actors : b # a => Answer(b)' = Answer(b)
    BY <1>0, <1>1, SameAnswer
  <2> QED
    BY <2>1, <2>2 DEF Answers
<1>7. BeingRead = Atomic!Nothing
  BY <1>3, WhenSettled DEF NothingRead, Atomic!Nothing, NoConfig, Atomic!NoConfig
<1>8. Atomic!Read(a)
  BY <1>0, <1>4, <1>5, <1>6, <1>7 DEF Atomic!Read
<1> QED
  BY <1>8 DEF Atomic!Next

\* The end of config.Load is the atomic reload.
LEMMA BuildReloads ==
  ASSUME IInv, NEW a \in Actors, Build(a)
  PROVE  Atomic!Next
<1>0. /\ reload[a] = "build"
      /\ reload' = [reload EXCEPT ![a] = "record"]
      /\ UNCHANGED <<file, live, successful, timestamp, mu, status, main>>
  BY DEF Build, otherVars, fileVars, liveVars
<1>1. /\ reload'[a] = "record"
      /\ \A b \in Actors : b # a => reload'[b] = reload[b]
  BY <1>0, OtherActors
<1>2. PICK ok \in BOOLEAN :
        /\ modules'[a].valid <=> ok
        /\ ok => modules[a].valid
        /\ modules'[a].version = modules[a].version
        /\ \A b \in Actors : b # a => modules'[b] = modules[b]
  <2>1. PICK readable \in BOOLEAN : modules' = [modules EXCEPT ![a].valid = @ /\ readable]
    BY DEF Build
  <2>2. modules \in [Actors -> [version : Versions, valid : BOOLEAN]]
    BY DEF IInv, TypeOK, Files
  <2>3. /\ modules'[a].version = modules[a].version
        /\ modules'[a].valid = (modules[a].valid /\ readable)
        /\ \A b \in Actors : b # a => modules'[b] = modules[b]
    BY <2>1, <2>2
  <2>4. (modules[a].valid /\ readable) \in BOOLEAN
    OBVIOUS
  <2> QED
    BY <2>3, <2>4
<1>3. loader = a /\ a # Nobody /\ loader' = a
  <2>1. loader = a /\ a # Nobody
    BY <1>0, InsideIsLoader DEF Inside
  <2> QED
    BY <1>0, <2>1 DEF loader
<1>4. /\ EffectiveLive = live /\ EffectiveSuccessful = successful
      /\ EffectiveTimestamp = timestamp
      /\ BeingRead = modules[a]
  BY <1>0, <1>3 DEF During, BeingRead, EffectiveLive, EffectiveSuccessful, EffectiveTimestamp
<1>5. /\ EffectiveLive' = IF ok THEN modules[a].version ELSE live
      /\ EffectiveSuccessful' = IF ok THEN 1 ELSE 0
      /\ EffectiveTimestamp' = IF ok THEN modules[a].version ELSE timestamp
      /\ BeingRead' = Atomic!Nothing
  <2>1. During({"record"})' /\ During({"record", "store"})' /\ ~During({"build"})'
    BY <1>1, <1>3 DEF During
  <2>2. /\ modules'[loader'].version = modules[a].version
        /\ modules'[loader'].valid <=> ok
        /\ live' = live /\ timestamp' = timestamp
    BY <1>0, <1>2, <1>3
  <2> QED
    BY <2>1, <2>2 DEF BeingRead, NothingRead, EffectiveLive, EffectiveSuccessful,
                      EffectiveTimestamp, Latest, Atomic!Nothing, NoConfig, Atomic!NoConfig
<1>6. Answers[a] = "reading"
  BY <1>0 DEF Answers, Answer
<1>7. Answers' = [Answers EXCEPT ![a] = IF ok THEN "ok" ELSE "failed"]
  <2>1. Answer(a)' = IF ok THEN "ok" ELSE "failed"
    BY <1>1, <1>2 DEF Answer, Succeeded
  <2>2. \A b \in Actors : b # a => Answer(b)' = Answer(b)
    BY <1>0, <1>1, <1>2, SameAnswer
  <2> QED
    BY <2>1, <2>2 DEF Answers
<1>8. Atomic!Reload(a, ok)
  BY <1>0, <1>2, <1>4, <1>5, <1>6, <1>7 DEF Atomic!Reload
<1> QED
  BY <1>8 DEF Atomic!Next

\* Recording the outcome is not seen.
LEMMA RecordUnseen ==
  ASSUME IInv, NEW a \in Actors, Record(a)
  PROVE  UNCHANGED Atomic!vars
<1>0. /\ reload[a] = "record"
      /\ reload' = [reload EXCEPT ![a] = afterRecord(modules[a])]
      /\ successful' = outcome(modules[a])
      /\ timestamp' = IF modules[a].valid THEN modules[a].version ELSE timestamp
      /\ UNCHANGED <<file, live, modules, mu, status, main>>
  BY DEF Record, otherVars, fileVars
<1>1. /\ reload'[a] = IF modules[a].valid THEN "store" ELSE "loaded"
      /\ \A b \in Actors : b # a => reload'[b] = reload[b]
  BY <1>0, OtherActors DEF afterRecord
<1>2. loader = a /\ a # Nobody /\ loader' = a
  <2>1. loader = a /\ a # Nobody
    BY <1>0, InsideIsLoader DEF Inside
  <2> QED
    BY <1>0, <2>1 DEF loader
<1>3. UNCHANGED seen
  <2>1. /\ ~During({"build"}) /\ During({"record"}) /\ During({"record", "store"})
        /\ ~During({"build"})' /\ ~During({"record"})'
        /\ During({"record", "store"})' <=> modules[a].valid
    BY <1>0, <1>1, <1>2 DEF During
  <2>2. UNCHANGED BeingRead
    BY <2>1 DEF BeingRead, NothingRead
  <2>3. UNCHANGED EffectiveLive
    BY <1>0, <1>2, <2>1 DEF EffectiveLive, Latest
  <2>4. UNCHANGED <<EffectiveSuccessful, EffectiveTimestamp>>
    BY <1>0, <1>2, <2>1 DEF EffectiveSuccessful, EffectiveTimestamp, Latest, outcome
  <2> QED
    BY <1>0, <2>2, <2>3, <2>4 DEF seen
<1>4. \A b \in Actors : Answer(b)' = Answer(b)
  <2>1. Answer(a)' = Answer(a)
    BY <1>0, <1>1 DEF Answer, Succeeded
  <2> QED
    BY <1>0, <1>1, <2>1, SameAnswer
<1> QED
  BY <1>3, <1>4, Unseen

\* Storing the configuration is not seen.
LEMMA StoreUnseen ==
  ASSUME IInv, NEW a \in Actors, Store(a)
  PROVE  UNCHANGED Atomic!vars
<1>0. /\ reload[a] = "store"
      /\ reload' = [reload EXCEPT ![a] = "loaded"]
      /\ live' = modules[a].version
      /\ UNCHANGED <<file, successful, timestamp, modules, mu, status, main>>
  BY DEF Store, otherVars, fileVars
<1>1. /\ reload'[a] = "loaded"
      /\ \A b \in Actors : b # a => reload'[b] = reload[b]
  BY <1>0, OtherActors
<1>2. loader = a /\ a # Nobody /\ loader' = a
  <2>1. loader = a /\ a # Nobody
    BY <1>0, InsideIsLoader DEF Inside
  <2> QED
    BY <1>0, <2>1 DEF loader
<1>3. modules[a].valid
  BY <1>0, <1>2 DEF IInv, Gauges, During
<1>4. UNCHANGED seen
  BY <1>0, <1>1, <1>2, <1>3 DEF seen, BeingRead, NothingRead, EffectiveLive,
                                EffectiveSuccessful, EffectiveTimestamp, Latest, During
<1>5. \A b \in Actors : Answer(b)' = Answer(b)
  <2>1. Answer(a)' = Answer(a)
    BY <1>0, <1>1 DEF Answer, Succeeded
  <2> QED
    BY <1>0, <1>1, <2>1, SameAnswer
<1> QED
  BY <1>4, <1>5, Unseen

\* A POST keeps its answer when it is sent; the signal goroutine returns.
LEMMA UnlockReturns ==
  ASSUME IInv, NEW a \in Actors, Unlock(a)
  PROVE  [Atomic!Next]_(Atomic!vars)
<1>0. /\ a # Main /\ reload[a] = "loaded" /\ mu' = Nobody
      /\ reload' = [reload EXCEPT ![a] = IF a = SignalLoop THEN "idle" ELSE "done"]
      /\ UNCHANGED <<file, live, successful, timestamp, modules, main>>
      /\ a = SignalLoop => status' = status
      /\ a # SignalLoop => status' = [status EXCEPT ![a] = statusCode(modules[a])]
  BY DEF Unlock, released, otherVars, fileVars, liveVars
<1>1. /\ reload'[a] = IF a = SignalLoop THEN "idle" ELSE "done"
      /\ \A b \in Actors : b # a => reload'[b] = reload[b]
  BY <1>0, OtherActors
<1>2. loader = a /\ a # Nobody /\ main # "load"
  BY <1>0, InsideIsLoader DEF Inside
<1>3. Settled /\ Settled'
  BY <1>0, <1>2 DEF Settled, During, loader
<1>4. UNCHANGED seen
  BY <1>0, <1>3, WhenSettled, WhenSettledNext DEF seen
<1>5. \A b \in Actors : b # a => Answer(b)' = Answer(b)
  <2>1. ASSUME NEW b \in Actors, b # a, b \in Posters
        PROVE  status'[b] = status[b]
    BY <1>0, <2>1 DEF IInv, TypeOK
  <2> QED
    BY <1>0, <1>1, <2>1, SameAnswer
<1>6. CASE a = SignalLoop
  <2>1. Answer(a)' = "none" /\ Answer(a) \in {"ok", "failed"}
    BY <1>0, <1>1, <1>6 DEF Answer
  <2>2. Answers' = [Answers EXCEPT ![a] = "none"] /\ Answers[a] \in {"ok", "failed"}
    BY <1>5, <2>1 DEF Answers
  <2>3. Atomic!Return(a)
    BY <1>4, <2>2 DEF Atomic!Return, seen
  <2> QED
    BY <2>3 DEF Atomic!Next
<1>7. CASE a # SignalLoop
  <2>1. a \in Posters /\ status'[a] = IF modules[a].valid THEN 200 ELSE 500
    BY <1>0, <1>7 DEF IInv, TypeOK, Actors, statusCode
  <2>2. Answer(a)' = Answer(a)
    BY <1>0, <1>1, <1>7, <2>1 DEF Answer, Succeeded
  <2> QED
    BY <1>4, <1>5, <2>2, Unseen
<1> QED
  BY <1>6, <1>7

\* Main is not seen to leave its load.
LEMMA StartServeUnseen ==
  ASSUME IInv, StartServe
  PROVE  UNCHANGED Atomic!vars
<1>0. /\ reload[Main] = "loaded" /\ main' = "serving"
      /\ reload' = [reload EXCEPT ![Main] = "done"]
      /\ UNCHANGED <<file, live, successful, timestamp, mu, modules, status>>
  BY DEF StartServe, fileVars, liveVars
<1>1. /\ reload'[Main] = "done"
      /\ \A b \in Actors : b # Main => reload'[b] = reload[b]
  BY <1>0, OtherActors, ActorsDiffer
<1>2. loader = Main /\ mu = Nobody
  <2>1. main \in Starting /\ main = "load"
    BY <1>0 DEF IInv, TypeOK, Exclusion, Starting
  <2> QED
    BY <2>1, NobodyBeforeServe DEF loader
<1>3. Settled /\ Settled'
  BY <1>0, <1>2 DEF Settled, During, loader
<1>4. UNCHANGED seen
  BY <1>0, <1>3, WhenSettled, WhenSettledNext DEF seen
<1>5. \A b \in Actors : Answer(b)' = Answer(b)
  <2>1. Answer(Main)' = Answer(Main)
    BY <1>0, <1>1, ActorsDiffer DEF Answer, Succeeded
  <2> QED
    BY <1>0, <1>1, <2>1, SameAnswer
<1> QED
  BY <1>4, <1>5, Unseen

\* Every step of the reloader is one of the atomic reloader, or is not seen.
LEMMA StepRefines ==
  ASSUME IInv, [Next]_vars
  PROVE  [Atomic!Next]_(Atomic!vars)
<1>1. CASE \E valid \in BOOLEAN : Edit(valid)
  <2> PICK valid \in BOOLEAN : Edit(valid)
    BY <1>1
  <2>1. /\ file' = [version |-> file.version + 1, valid |-> valid]
        /\ UNCHANGED <<live, successful, timestamp, mu, reload, modules, status, main>>
    BY DEF Edit, reloadVars, liveVars
  <2>2. UNCHANGED <<BeingRead, EffectiveLive, EffectiveSuccessful, EffectiveTimestamp>>
    BY <2>1 DEF BeingRead, NothingRead, EffectiveLive, EffectiveSuccessful, EffectiveTimestamp,
                Latest, During, loader
  <2>3. \A a \in Actors : Answer(a)' = Answer(a)
    BY <2>1, SameAnswer
  <2>4. Answers' = Answers
    BY <2>3 DEF Answers
  <2>5. Atomic!Edit
    BY <2>1, <2>2, <2>4 DEF Atomic!Edit
  <2> QED
    BY <2>5 DEF Atomic!Next
<1>2. CASE \E p \in Posters : Post(p)
  <2> PICK p \in Posters : Post(p)
    BY <1>2
  <2>1. /\ reload[p] = "idle" /\ reload' = [reload EXCEPT ![p] = "lock"]
        /\ UNCHANGED <<fileVars, liveVars, mu, modules, status, main>>
        /\ p \in Actors /\ p # Main
    BY ActorsDiffer DEF Post
  <2> QED
    BY <2>1, RequestAsks
<1>3. CASE \E a \in Actors : Lock(a)
  BY <1>3, LockUnseen
<1>4. CASE \E a \in Actors : Load(a)
  BY <1>4, LoadReads
<1>4a. CASE \E a \in Actors : Build(a)
  BY <1>4a, BuildReloads
<1>5. CASE \E a \in Actors : Record(a)
  BY <1>5, RecordUnseen
<1>6. CASE \E a \in Actors : Store(a)
  BY <1>6, StoreUnseen
<1>7. CASE \E a \in Actors : Unlock(a)
  BY <1>7, UnlockReturns
<1>8. CASE LoopReceives
  <2>1. UNCHANGED <<fileVars, liveVars, mu, modules, status, lastLoaded, lastFailed, main, asked>>
    BY <1>8 DEF LoopReceives
  <2>2. CASE reload' = reload
    BY <2>1, <2>2, OtherUnseen DEF core
  <2>3. CASE reload' # reload
    <3>1. /\ reload[SignalLoop] = "idle"
          /\ reload' = [reload EXCEPT ![SignalLoop] = "lock"]
          /\ SignalLoop \in Actors /\ SignalLoop # Main
      BY <1>8, <2>3, ActorsDiffer DEF LoopReceives, IInv, Exclusion
    <3> QED
      BY <2>1, <3>1, RequestAsks
  <2> QED
    BY <2>2, <2>3
<1>9. CASE ParseFlags
  <2>1. CASE \E code \in {0, 1} : Exit(code)
    BY <2>1, OtherUnseen DEF Exit, core, reloadVars
  <2>2. CASE ~\E code \in {0, 1} : Exit(code)
    <3>1. /\ main = "flags" /\ main' = "load"
          /\ reload' = [reload EXCEPT ![Main] = "load"]
          /\ UNCHANGED <<fileVars, liveVars, mu, modules, status>>
      BY <1>9, <2>2, Zenon DEF ParseFlags
    <3>2. reload[Main] = "idle" /\ Main \in Actors
      BY <3>1, ActorsDiffer DEF IInv, Exclusion
    <3> QED
      BY <3>1, <3>2, RequestAsks
  <2> QED
    BY <2>1, <2>2
<1>10. CASE StartServe
  BY <1>10, StartServeUnseen
<1>11. CASE \/ \E sig \in {"SIGHUP", "SIGTERM"} : Signal(sig)
            \/ SlowRequest \/ FirstLoadFails \/ checkConfig \/ ServeReturns \/ UNCHANGED vars
            \/ LoopStops \/ StopSignals \/ BeginShutdown
            \/ \E timedOut \in BOOLEAN : EndShutdown(timedOut)
  <2>1. UNCHANGED <<core, main>>
    BY <1>11 DEF Signal, SlowRequest, FirstLoadFails, checkConfig, ServeReturns, Exit, LoopStops,
                 StopSignals, BeginShutdown, EndShutdown, vars, core, reloadVars
  <2> QED
    BY <2>1, OtherUnseen
<1>12. CASE Listen \/ CloseStop \/ \E failed \in BOOLEAN : ListenReturns(failed)
  <2>1. /\ UNCHANGED core
        /\ main' = main \/ (main \notin Starting /\ main' \notin Starting)
    BY <1>12 DEF Listen, CloseStop, ListenReturns, core, reloadVars, Starting
  <2> QED
    BY <2>1, OtherUnseen
<1> QED
  BY NextCases, <1>1, <1>2, <1>3, <1>4, <1>4a, <1>5, <1>6, <1>7, <1>8, <1>9, <1>10, <1>11, <1>12

\* The reloader implements the atomic one: reloads read the file and take effect one after
\* the other, and each takes effect in one moment between the request and its answer, in
\* which the configuration, the gauges and the answer become those of what it read
\* (main.go:163-186).
THEOREM Linearizable == Spec => ImplementsAtomicReload
<1>1. Init => Atomic!Init
  <2> SUFFICES ASSUME Init PROVE Atomic!Init
    OBVIOUS
  <2>1. Settled
    BY DEF Init, Settled, During, loader
  <2>2. /\ BeingRead = Atomic!Nothing
        /\ EffectiveLive = live /\ EffectiveSuccessful = successful
        /\ EffectiveTimestamp = timestamp
    BY <2>1, WhenSettled DEF NothingRead, Atomic!Nothing, NoConfig, Atomic!NoConfig
  <2>3. Answers = [a \in Actors |-> "none"]
    BY DEF Init, Answers, Answer
  <2> QED
    BY <2>2, <2>3 DEF Init, Atomic!Init, NoConfig, Atomic!NoConfig
<1>2. IInv /\ [Next]_vars => [Atomic!Next]_(Atomic!vars)
  BY StepRefines
<1> QED
  BY <1>1, <1>2, Invariance, PTL DEF Spec, Atomic!Spec, ImplementsAtomicReload
=============================================================================
