------------------------------ MODULE Handler ------------------------------
(***************************************************************************)
(* The /probe handler (internal/probehttp/probehttp.go): concurrent        *)
(* requests that share the live configuration, which a reload may swap at  *)
(* any moment, the semaphore that bounds running probes, the in-flight     *)
(* gauge and the request counter.                                          *)
(*                                                                         *)
(* A configuration is a function from module names to modules; a module is *)
(* reduced to what the handler reads: the default port, the allowed ports  *)
(* and the hosts its matchers accept.  The probe itself is Probe.tla; here *)
(* it is a step that takes its time.  "none" stands for the empty string.  *)
(***************************************************************************)
EXTENDS Integers, FiniteSets

CONSTANTS
    Requests,       \* identities of requests
    Configs,        \* configurations a reload may make live
    Queries,        \* what a request may ask for
    Limits,         \* values of Options.MaxConcurrent to start with; 0 disables the limit
    Timeout,        \* Options.Timeout, in units of half a second
    TimeoutOffset   \* Options.TimeoutOffset, in the same unit

Codes == {200, 400, 403, 500, 503}

\* Values of X-Prometheus-Scrape-Timeout-Seconds that are not numbers, or negative,
\* are all "unusable"; NoHeader is an absent header.
NoHeader == -2
Unusable == -1

NoPort == -1        \* the target names no port

moduleUnresolved == "none"
DefaultModuleName == "default"

\* The values flags.validate lets through.
ASSUME RequestsAssumption == IsFiniteSet(Requests)
ASSUME LimitsAssumption == Limits \subseteq Nat
ASSUME TimeoutAssumption == Timeout \in Nat \ {0} /\ TimeoutOffset \in Nat
ASSUME QueriesAssumption ==
    \A q \in Queries :
      /\ q.module \in STRING
      /\ q.target \in {"missing", "malformed", "host"}
      /\ q.port \in Nat \cup {NoPort}
      /\ q.scrapeTimeout \in Int

VARIABLES
    maxConcurrent,  \* Options.MaxConcurrent, which never changes
    live,       \* the configuration Options.Live points to
    pc,         \* where each request is
    query,      \* what it asked for
    modules,    \* the configuration it loaded
    status,     \* the status code sent to the client, 0 before
    code,       \* the status code it counts
    timeout,    \* the effective timeout of its probe, 0 before
    sem,        \* elements in the semaphore channel
    inFlight,   \* the gauge
    requests,   \* the counter, by module label and status code
    seen        \* history: the configurations live since it arrived

requestVars == <<query, modules, status, code, timeout>>
vars == <<maxConcurrent, live, pc, requestVars, sem, inFlight, requests, seen>>

Names(configs) == UNION {DOMAIN c : c \in configs}
Labels == Names(Configs) \cup {q.module : q \in Queries} \cup {moduleUnresolved, DefaultModuleName}
NoQuery == [module |-> "none", target |-> "missing", host |-> "none", port |-> NoPort,
            scrapeTimeout |-> NoHeader]
NoModules == [name \in {} |-> 0]

Init ==
    /\ maxConcurrent \in Limits
    /\ live \in Configs
    /\ pc = [r \in Requests |-> "idle"]
    /\ query = [r \in Requests |-> NoQuery]
    /\ modules = [r \in Requests |-> NoModules]
    /\ status = [r \in Requests |-> 0]
    /\ code = [r \in Requests |-> 0]
    /\ timeout = [r \in Requests |-> 0]
    /\ sem = 0
    /\ inFlight = 0
    /\ requests = [lc \in Labels \X Codes |-> 0]
    /\ seen = [r \in Requests |-> {}]

-----------------------------------------------------------------------------
(***************************************************************************)
(* Pure parts of the handler.                                              *)
(***************************************************************************)
moduleName(q) == IF q.module = "none" THEN DefaultModuleName ELSE q.module

ensurePort(q, defaultPort) == IF q.port # NoPort THEN q.port ELSE defaultPort

targetAllowed(host, mod) == host \in mod.AllowedTargets

\* The checks in the order of the code: the code of the first that fails, or 0.
Check(ms, q) ==
    CASE moduleName(q) \notin DOMAIN ms          -> 400
      [] OTHER ->
           LET mod == ms[moduleName(q)] IN
           CASE q.target \in {"missing", "malformed"} -> 400
             [] OTHER ->
                  IF /\ ensurePort(q, mod.TargetPort) \in mod.AllowedPorts
                     /\ targetAllowed(q.host, mod)
                  THEN 0 ELSE 403

\* Variant of countLabel that uses the name the client sent.
RequestedName(ms, q) == moduleName(q)

\* The module label of the counter.
countLabel(ms, q) ==
    IF moduleName(q) \in DOMAIN ms THEN moduleName(q) ELSE moduleUnresolved

\* Variant of effectiveTimeout that does not leave room for the offset.
ScrapeTimeoutWithoutOffset(s) ==
    IF s \in {NoHeader, Unusable} \/ s <= 0 \/ s >= Timeout + TimeoutOffset
    THEN Timeout
    ELSE s

effectiveTimeout(s) ==
    IF s \in {NoHeader, Unusable} \/ s <= 0 \/ s >= Timeout + TimeoutOffset
    THEN Timeout
    ELSE IF s - TimeoutOffset > 0 THEN s - TimeoutOffset ELSE Timeout

(***************************************************************************)
(* statusRecorder, and net/http underneath it: `sent' is the status of the *)
(* first header written, 200 if none is (0 while nothing was sent).        *)
(***************************************************************************)
newStatusRecorder == [status |-> 200, wroteHeader |-> FALSE, sent |-> 0]

\* Variant of WriteHeader that records every call.
WriteHeaderEveryTime(rec, c) ==
    [status |-> c,
     wroteHeader |-> TRUE,
     sent |-> IF rec.sent = 0 THEN c ELSE rec.sent]

WriteHeader(rec, c) ==
    [status |-> IF rec.wroteHeader THEN rec.status ELSE c,
     wroteHeader |-> TRUE,
     sent |-> IF rec.sent = 0 THEN c ELSE rec.sent]

Write(rec) ==
    [rec EXCEPT !.wroteHeader = TRUE, !.sent = IF @ = 0 THEN 200 ELSE @]

\* What a wrapped handler may do with its ResponseWriter: promhttp writes the
\* metrics, or an error; the client may be gone before anything is written; and
\* a second header, which net/http drops, may follow the first bytes.
Responses ==
    {newStatusRecorder, Write(newStatusRecorder),
     Write(WriteHeader(newStatusRecorder, 500)),
     WriteHeader(Write(newStatusRecorder), 500)}

-----------------------------------------------------------------------------
(***************************************************************************)
(* The configuration is swapped by a reload.                               *)
(***************************************************************************)
Reload(c) ==
    /\ live' = c
    /\ seen' = [r \in Requests |-> IF pc[r] = "idle" THEN {} ELSE seen[r] \cup {c}]
    /\ UNCHANGED <<maxConcurrent, pc, requestVars, sem, inFlight, requests>>

-----------------------------------------------------------------------------
(***************************************************************************)
(* One request.                                                            *)
(***************************************************************************)
Arrive(r, q) ==
    /\ pc[r] = "idle"
    /\ pc' = [pc EXCEPT ![r] = "load"]
    /\ query' = [query EXCEPT ![r] = q]
    /\ seen' = [seen EXCEPT ![r] = {live}]
    /\ UNCHANGED <<maxConcurrent, live, modules, status, code, timeout, sem, inFlight, requests>>

LoadModules(r) ==
    /\ pc[r] = "load"
    /\ pc' = [pc EXCEPT ![r] = "check"]
    /\ modules' = [modules EXCEPT ![r] = live]
    /\ UNCHANGED <<maxConcurrent, live, query, status, code, timeout, sem, inFlight, requests, seen>>

\* writeError: the error is sent, then counted.
writeError(r, c) ==
    /\ pc' = [pc EXCEPT ![r] = "rejected"]
    /\ status' = [status EXCEPT ![r] = c]
    /\ code' = [code EXCEPT ![r] = c]
    /\ UNCHANGED <<maxConcurrent, live, query, modules, timeout, inFlight, requests, seen>>

\* Variant of configFor that reads Live again.
LiveConfig(r) == live

\* The checks all use the configuration that was loaded once.
configFor(r) == modules[r]

CheckRequest(r) ==
    LET c == Check(configFor(r), query[r]) IN
    /\ pc[r] = "check"
    /\ \/ /\ c = 0
          /\ pc' = [pc EXCEPT ![r] = "acquire"]
          /\ UNCHANGED <<maxConcurrent, live, requestVars, inFlight, requests, seen>>
       \/ c # 0 /\ writeError(r, c)
    /\ UNCHANGED sem

\* select on the semaphore: take a slot, or shed the request.  Without a limit
\* there is no semaphore.
Acquire(r) ==
    /\ pc[r] = "acquire"
    /\ maxConcurrent = 0 \/ sem < maxConcurrent
    /\ pc' = [pc EXCEPT ![r] = "start"]
    /\ sem' = IF maxConcurrent = 0 THEN sem ELSE sem + 1
    /\ UNCHANGED <<maxConcurrent, live, requestVars, inFlight, requests, seen>>

\* Variant of Shed that runs the deferred release although no slot was taken.
ShedAndRelease(r) ==
    /\ pc[r] = "acquire"
    /\ maxConcurrent > 0 /\ sem = maxConcurrent
    /\ writeError(r, 503)
    /\ sem' = sem - 1

Shed(r) ==
    /\ pc[r] = "acquire"
    /\ maxConcurrent > 0 /\ sem = maxConcurrent
    /\ writeError(r, 503)
    /\ UNCHANGED sem

StartProbe(r) ==
    /\ pc[r] = "start"
    /\ pc' = [pc EXCEPT ![r] = "probing"]
    /\ inFlight' = inFlight + 1
    /\ timeout' = [timeout EXCEPT ![r] = effectiveTimeout(query[r].scrapeTimeout)]
    /\ UNCHANGED <<maxConcurrent, live, query, modules, status, code, sem, requests, seen>>

\* promhttp gathers the collector, which runs the probe, and writes the response.
ServeMetrics(r, rec) ==
    /\ pc[r] = "probing"
    /\ pc' = [pc EXCEPT ![r] = "served"]
    /\ status' = [status EXCEPT ![r] = IF rec.sent = 0 THEN 200 ELSE rec.sent]
    /\ code' = [code EXCEPT ![r] = rec.status]
    /\ UNCHANGED <<maxConcurrent, live, query, modules, timeout, sem, inFlight, requests, seen>>

Count(r) ==
    requests' = [requests EXCEPT ![<<countLabel(modules[r], query[r]), code[r]>>] = @ + 1]

CountRejected(r) ==
    /\ pc[r] = "rejected"
    /\ pc' = [pc EXCEPT ![r] = "done"]
    /\ Count(r)
    /\ UNCHANGED <<maxConcurrent, live, requestVars, sem, inFlight, seen>>

CountServed(r) ==
    /\ pc[r] = "served"
    /\ pc' = [pc EXCEPT ![r] = "counted"]
    /\ Count(r)
    /\ UNCHANGED <<maxConcurrent, live, requestVars, sem, inFlight, seen>>

\* The deferred calls, last one first: cancel and inFlight.Dec, then the slot.
DecInFlight(r) ==
    /\ pc[r] = "counted"
    /\ pc' = [pc EXCEPT ![r] = "release"]
    /\ inFlight' = inFlight - 1
    /\ UNCHANGED <<maxConcurrent, live, requestVars, sem, requests, seen>>

\* Variant of released that forgets the slot.
KeepSlot == sem

released == IF maxConcurrent = 0 THEN sem ELSE sem - 1

Release(r) ==
    /\ pc[r] = "release"
    /\ pc' = [pc EXCEPT ![r] = "done"]
    /\ sem' = released
    /\ UNCHANGED <<maxConcurrent, live, requestVars, inFlight, requests, seen>>

\* What the handler does by itself, once a request has arrived.
Handle(r) ==
    \/ LoadModules(r) \/ CheckRequest(r) \/ Acquire(r) \/ Shed(r) \/ StartProbe(r)
    \/ \E rec \in Responses : ServeMetrics(r, rec)
    \/ CountRejected(r) \/ CountServed(r) \/ DecInFlight(r) \/ Release(r)

Next ==
    \/ \E c \in Configs : Reload(c)
    \/ \E r \in Requests : Handle(r) \/ \E q \in Queries : Arrive(r, q)

Spec == Init /\ [][Next]_vars

(***************************************************************************)
(* A goroutine of net/http serves each request; a probe ends by its        *)
(* timeout at the latest (Termination in Probe.tla).                       *)
(***************************************************************************)
FairSpec == Spec /\ \A r \in Requests : WF_vars(Handle(r))

-----------------------------------------------------------------------------
(***************************************************************************)
(* Properties.                                                             *)
(***************************************************************************)
HoldsSlot(r) == pc[r] \in {"start", "probing", "served", "counted", "release"}
Probing(r)   == pc[r] \in {"probing", "served", "counted"}

\* Every variable has its type; the semaphore never holds more than its capacity.
TypeOK ==
    /\ maxConcurrent \in Limits
    /\ live \in Configs
    /\ pc \in [Requests -> {"idle", "load", "check", "rejected", "acquire", "start",
                            "probing", "served", "counted", "release", "done"}]
    /\ query \in [Requests -> Queries \cup {NoQuery}]
    /\ modules \in [Requests -> Configs \cup {NoModules}]
    /\ status \in [Requests -> Codes \cup {0}]
    /\ code \in [Requests -> Codes \cup {0}]
    /\ timeout \in [Requests -> 0..Timeout]
    /\ sem \in 0..maxConcurrent
    /\ inFlight \in Nat
    /\ requests \in [Labels \X Codes -> Nat]
    /\ seen \in [Requests -> SUBSET Configs]

\* The semaphore holds one element for each request between its acquisition and
\* its deferred release, and the gauge counts the probes that run: no path through
\* the handler leaks a slot or gives back one it did not take, and the gauge never
\* exceeds the limit it is compared with (probehttp.go:102-117).
SlotAccounting ==
    /\ maxConcurrent > 0 => sem = Cardinality({r \in Requests : HoldsSlot(r)})
    /\ inFlight = Cardinality({r \in Requests : Probing(r)})
    /\ maxConcurrent > 0 => inFlight <= maxConcurrent

\* Whatever is probed was allowed, host, port and module together, by one
\* configuration that was live at some moment of the request: a reload in the middle
\* of a request never mixes two configurations (probehttp.go:71-100).
ProbeAllowedByOneConfig ==
    \A r \in Requests : Probing(r) =>
      LET c == modules[r] IN
        /\ c \in seen[r]
        /\ moduleName(query[r]) \in DOMAIN c
        /\ query[r].host \in c[moduleName(query[r])].AllowedTargets
        /\ ensurePort(query[r], c[moduleName(query[r])].TargetPort)
              \in c[moduleName(query[r])].AllowedPorts

Counted(r) == pc[r] \in {"counted", "release", "done"}

\* Every request is counted once, under the code its client was sent and under the
\* module it resolved to (probehttp.go:122-124, 139-150, 172-175).
CountedOnceAsSent ==
    \A l \in Labels, c \in Codes :
      requests[<<l, c>>] = Cardinality({r \in Requests :
                                      /\ Counted(r)
                                      /\ status[r] = c
                                      /\ l = countLabel(modules[r], query[r])})

\* A module name that no configuration ever had creates no series (README.md:475-477;
\* probehttp.go:24-26, 73-77).
NoSeriesForUnknownModules ==
    \A l \in Labels, c \in Codes :
      requests[<<l, c>>] > 0 => l \in {moduleUnresolved} \cup Names(Configs)

\* A probe is given time, never more than the hard bound, and if the scraper announced
\* a timeout longer than the offset it is over by the offset before the scraper gives
\* up (probehttp.go:31-36, 156-169).
TimeoutLeavesRoom ==
    \A r \in Requests : timeout[r] # 0 =>
      /\ timeout[r] \in 1..Timeout
      /\ query[r].scrapeTimeout > TimeoutOffset =>
            timeout[r] + TimeoutOffset <= query[r].scrapeTimeout

\* All requests that arrived are answered and counted, and then no slot stays taken:
\* load never leaves the exporter with less capacity than it started with
\* (probehttp.go:102-117).
Quiesces ==
    (\E r \in Requests : pc[r] # "idle") ~>
        /\ sem = 0 /\ inFlight = 0
        /\ \A r \in Requests : pc[r] \in {"idle", "done"}
=============================================================================
