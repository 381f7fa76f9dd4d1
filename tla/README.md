# A TLA+ model of ssh_transport_exporter

This directory holds TLA+ modules that model the exporter, TLC configurations
that check them on small instances, and proofs that TLAPS checks for every value
of the constants. File and line references are to this repository
(`probe.go` is `internal/probe/probe.go`, `collector.go` is
`internal/collector/collector.go`, `probehttp.go` is
`internal/probehttp/probehttp.go`, `config.go`, `module.go` and `target.go` are in
`internal/config`).

To check a run: `tlc -config <file>.cfg <module>`. To check the proofs:
`tlapm <module>.tla` for `ProbeProofs`, `HostKeyProofs`, `IdentProofs`,
`CollectorProofs`, `HandlerProofs`, `ConfigProofs`, `LifecycleProofs` and
`LifecycleRefinement`.

## The system

A scrape of `/probe?target=...&module=...` runs one SSH transport handshake with
the target and answers with metrics about how far it got.

| Component | State | Operations | Interacts with |
|---|---|---|---|
| `probe.Run` | clock readings, connection, the channel of the host key verdict, the `Result` | dial, handshake, record, return | the dialer's goroutines, `context.AfterFunc`, x/crypto's key exchange goroutine, the server |
| identification watcher and parser | the line read so far, whether the identification ended | `Read`/`scan`, `parseServerIdentification` | wraps the connection that x/crypto reads |
| host key verification | known_hosts | `verifyHostKey`, `classifyHostKeyVerifyError` | called back by x/crypto on every key exchange |
| collector | none of its own | `Describe`, `Collect` | calls `Run`; called by a registry made for the request |
| `/probe` handler | the semaphore, in-flight gauge, request counter, status recorder | check, acquire or shed, probe, count, release | reads the live configuration, which reloads replace |
| reloader | the live configuration, a mutex, two gauges | `reload` | called by the signal goroutine and by `POST /-/reload` |
| start-up and `serve` | the signal channel, `stop`, `shutdownDone`, the HTTP server, the exit code | parse flags, load, relay signals, shut down, drain, return | os/signal, net/http |
| configuration loader | the modules resolved so far | `Load`: `loadRawConfig`, `build` | called by start-up and by the reloader |
| target matchers | none | `buildTarget`, `Match`, `normalize.Hostname`, `ensurePort` | built by `Load`, asked by the handler |

What is hard here:

- *Concurrency.* `ControlContext` runs on goroutines that race each other and may
  run after `DialContext` returned. The force-close runs on its own goroutine.
  `HostKeyCallback` runs on the library's goroutine, again for each key exchange
  the server starts, even after `Run` returned. Requests, reloads and signals
  interleave freely.
- *Failure.* The context may end between an error and its classification, and
  causes errors itself by closing the connection. One of several lookups of a host
  key may fail and another succeed.
- *Time.* Four durations are measured with readings that different goroutines
  take; the scrape timeout meets an offset and a hard bound.
- *Lost events.* os/signal drops a signal that finds the channel full.
- *Bounded waits.* The handshake takes no context, and the drain a deadline.
- *Untrusted input in pieces.* The identification arrives in reads of any size, of
  any length, and becomes label values.
- *Combinations.* Settings come from a module, from the defaults or from a flag,
  absent and empty are not always the same, and the modules are visited in the
  order of a Go map.

`PROJECT.json` lists these under `hazards`, each with its line and the
properties aimed at it.

## Modules

| Module | Models | Used by |
|---|---|---|
| `PhaseLadder` | what `Run` promises: phases in order, one stop, with the phase reached and a reason of it | `Probe` |
| `Probe` | `probe.Run` with its callbacks, the context, and the dialer, the resolver, x/crypto/ssh and the server as external actors; implements `PhaseLadder` | `MCProbe`, `Collector`, `ProbeProofs` |
| `HostKey` | `verifyHostKey` and `classifyHostKeyVerifyError` over known_hosts files | `MCHostKey`, `HostKeyProofs` |
| `Ident` | `identificationWatcher` and `parseServerIdentification` over classes of bytes | `MCIdent`, `IdentProofs` |
| `Collector` | `Collect`, composed with `Probe`: its specification runs a probe to its end and then collects | `MCCollector`, `CollectorProofs` |
| `Handler` | the `/probe` handler with concurrent requests and reloads | `MCHandler`, `HandlerProofs` |
| `Targets` | patterns, matchers, the normalisation of names, `ensurePort` | `Config` |
| `Config` | `Load`, and the decision on one target under what it loaded | `MCConfig`, `ConfigProofs` |
| `AtomicReload` | what the reloader promises: reloads read the file one at a time, and each takes effect in one step | `Lifecycle` |
| `Lifecycle` | start-up, `serve`, signals, shutdown and the reloader, which implements `AtomicReload` | `MCLifecycle`, `LifecycleProofs` |
| `ProbeProofs` | the inductive invariant of `Probe`, its theorems, and the proof that it implements `PhaseLadder` | `CollectorProofs` |
| `HostKeyProofs` | what the lookups return and the theorems of `HostKey` | |
| `IdentProofs` | the inductive invariant of `Ident` and its theorems | |
| `CollectorProofs` | what each group of metrics sends and the theorems of `Collector` | |
| `ConfigProofs` | patterns, inheritance, the invariant of the two loops and the theorems of `Config` | |
| `HandlerProofs` | the inductive invariant of `Handler` and its theorems | |
| `LifecycleProofs` | the inductive invariant of `Lifecycle` and its theorems | `LifecycleRefinement` |
| `LifecycleRefinement` | the proof that `Lifecycle` implements `AtomicReload` | |

The `MC` modules only give values to constants. Operators described as a
"variant of" another one state a plausible defect; nothing in a specification
uses them. They show that the properties can fail: each property is violated
when the variant takes the place of the original (`mutants` in `PROJECT.json`).

### Probe

`pc` is the position in `Run`; its values from `version` to `session` lie inside
`ssh.NewClientConn`:

    start -> dial -> dialed -> connected -> version -> kexinit -> kexreply
          -> verify -> newkeys -> session -> over -> hostkey -> return -> done

A failed dial goes from `dialed` to `return`, a failed handshake from any position
inside `NewClientConn` where the library waits for the peer to `over`. The
variables have the names of the code; `conn` is `rawConn`, `afterFunc` the state
of the registered force-close, and `firstVerdict` a history variable that the code
does not have. `now` advances by `Tick` at any moment, and every `time.Now()` of
the code reads it. `"none"` stands for an empty string or a nil error.

What is taken from the libraries: `DialContext` returns a connection only after
some attempt called `ControlContext`, and only if the context has not ended by then;
an attempt that lost the race may still call it afterwards. x/crypto calls `HostKeyCallback` after the server's key exchange
reply and before the exchange completes, `TransportReadyCallback` after it, and
closes the connection on every error. The server may start further key exchanges
once the first is complete; their callbacks run at any later moment. A packet
that was read before the connection was closed is still processed, which is why
the library's steps other than reading the identification have no guard on `conn`.

Identifications are reduced to the kinds that the parser and the collector treat
differently, algorithm names to whether they are set, and for MACs, which an AEAD
cipher does without, to the set of directions that have one.

`PhaseLadder` is a probe as the exporter's README describes it under *Phases* and
*Reasons*: it is in one phase at a time, moves to the next, judges the host key once
in the last phase, and stops once. It then reports success, a rejected host key, or
the phase it is in with one of the `Causes` that phase can have: no `dns_failure`
after the lookup, no `connection_refused` once connected, no negotiation failure
after a host key was seen, `canceled` only if the caller is gone, `user_auth_reached`
never. `Probe` implements it under the mapping `Ladder`: `PhaseReached` is read off
the first connect attempt, the connection, the identification and the error of the
handshake, and the report is the result from `Return` on. The first
`ControlContext`, `DialSucceeds`, `ReadIdentification` and `TransportReadyCallback`
advance, `VerifyFirstKey` verifies, `Return` stops, and no other step of `Run`, the
dialer or the library is seen. So the result, which is filled in field by field,
mostly long after the event, tells the same story as the events themselves.

### HostKey

A known_hosts file is reduced to its lines for the target: keys listed plainly,
keys marked `@cert-authority`, keys marked `@revoked`. `check` is the external
callback of x/crypto's knownhosts; `verifyHostKey` calls it with the key, and for a
certificate with its CA and with the key inside. `AcceptedIffVouched` compares the
verdict with a definition of its own of what the file vouches for, and
`ReasonTellsCause` says of each reason exactly when it is given, in the words of the
exporter's table of reasons: an invalid certificate is one that a CA trusted for the
target, by an `@cert-authority` line, has signed. For a signer that is listed as a
host key only (`ListedSigner`) the code does not do what the table says; the run
`hostkey_untrusted_ca` shows it, and `ReasonTellsCause` leaves the two reasons
concerned open for it.

### Ident

A line is a sequence of classes of bytes. `Read` and `ReadEnds` split the input at
any byte; `scanByte` appends and cuts, `scanOtherLine` forgets a line that is no
identification, `scanIdentification` ends. `sent` keeps the whole line that the
server sent, of which `line` is what the watcher kept. The limit is 4 instead of
255; lines reach 3 bytes beyond it, so that the cut at the limit plus 2, and a line
longer than that, are both met.

### Collector

`metrics` is the sequence sent on the channel. `Collect` reads the result once,
after the probe is done, and sends what the code sends, in its order. What can cost
the scrape its metrics (`GatherSucceeds`) is a metric without a value for each of its
labels, on which `mustNewConstMetric` panics, and two with the same labels, which the
registry refuses to gather. `Describe` is left out: the registry of the handler is not
a pedantic one and does not compare it with what is sent.

### Handler

One process per request; a step ends where another goroutine can observe or change
shared state: loading the live configuration, the semaphore, the gauge, the
response, the counter. The checks of module, target, port and host are one step,
as they only read the map that was loaded. A configuration is a function from
module names to the default port, the allowed ports and the set of hosts that the
matchers accept (`Config` and `Targets` model where these come from). Times are in
units of half a second, so that an offset of 1 is the 500 ms of `main.go`. `seen`
is a history variable: the configurations that were live since the request
arrived.

### Targets and Config

A host name is the sequence of its labels, so that a trailing dot, an empty label
and the empty name are all there; IPv4 literals have two octets of one bit, IPv6
literals one label and three bits, which is enough for prefixes shorter than,
equal to and longer than an address. `Config` loops over the modules in any order,
once to inherit and check, once to build, and stops at the first error. Then it
is asked to probe one target. `LoadedIffAllValid`, `ProbedIffConfigured` and
`AdvertisedAsConfigured` compare the outcome with what the file says, defined
without loops, matchers or inheritance order. What a pattern stands for (`Denotes`)
follows the example configuration: hostname patterns stand for hostnames, addresses
and blocks for addresses. The matchers also take an IPv4 literal that reads like a
name of a hostname pattern (`SpellsIP`); the run `config_hostnames` shows it, and
`ProbedIffConfigured` leaves the answer to these open. The label without characters is
written `Empty`. What may be in a file or a request is stated as assumptions on
`Cases` and `Requests`: any name of one label or more, any prefix length, any
ports, any names of algorithms, any number of modules.

### Lifecycle

A configuration is the version number of the file it came from; `Edit` makes a new
version, valid or not. Each caller of `reload` is an actor with its own position;
lock, load, record, store and unlock are separate steps. `config.Load` takes two:
`Load` reads the file, and `Build`, with edits possible in between, does the rest. It
refuses a file that is not valid, and may fail on one that is, as the known_hosts
files it names are read then and may be missing by now. Main is an actor too: it
loads before `serve`, without the mutex. The timestamp gauge holds the version
whose load set it; `lastLoaded` and `lastFailed` are history variables for what the
last `config.Load` read and whether it failed. `slow` stands for any other request in
flight. `SIGTERM` also stands for `SIGINT`, which the code treats alike. Before
`signal.Notify` and after `signal.Stop` a signal has its default action and kills the
process.

`AtomicReload` is the reloader as its clients would like it: somebody asks, the file
is read while no other reload is reading, then one step sets configuration, gauges
and answer to what was read, and the asker gets the answer. `Lifecycle` implements it
under the mapping `Atomic`: the effective configuration and gauges are those that the
holder of the mutex has loaded, from the moment `config.Load` has returned. `Load` is
then the atomic read and `Build` the atomic reload, `Post`, `LoopReceives` and
`ParseFlags` ask, the signal goroutine's `Unlock` returns, `Edit` edits, and no other
step is seen. This says that the reloader is linearizable although record and store
come later and one after the other.

## Runs

Passing runs:

| Run | Instance | What it shows |
|---|---|---|
| `probe` | 3 ticks, 1 rekey, 2 host key errors; 1.1 M states | the result is typed (no negative duration), its phases are in order, every failure is explained, the verdict is the first, the force-close is blamed on the context, the durations fit, what is reported is the phase reached with a reason of it (`PhaseLadder`), and `Run` returns without help from resolver, network or server |
| `hostkey` | every known_hosts over 3 keys, every plain key and certificate; 40 k states | a key is accepted exactly if known_hosts vouches for it, and otherwise the reason is the cause, but for signers listed as a host key only |
| `ident` | limit 4, lines up to 7, one line before; 471 k states | the identification is found in any split of the input, exported as sent or not at all, only if printable, and is called conformant exactly if the whole line is |
| `collector_metrics` | all kinds of identification, all sets of MACs; 205 k states | the metrics of every possible result can be gathered and keep the HELP texts |
| `handler_requests` | 2 requests, 2 configurations that disagree on everything, no limit and limit 1, scrape timeouts around the bounds; 386 k states | slots, gauge and counter are right, what is probed is allowed by one configuration, the timeout leaves room for the answer, and after a burst all slots are free |
| `config` | families of files, each varying what can interact, and every request against each; 83 k states | what loads, what may be probed and what is advertised is what the file says |
| `lifecycle` | 1 POST, 1 edit, 3 signals; 306 k states | reloads are as good as atomic, the live configuration never goes back and is always a valid one, gauges and answers are true, serve waits for the drain; a SIGHUP leads to a load, a POST to an answer, and serve ends |

Runs whose property, taken from a comment or from the documentation, the code
violates (details under `findings` in `PROJECT.json`):

| Run | Statement | What happens |
|---|---|---|
| `probe_resolved` | collector.go:42: "Whether the target hostname was resolved." | a resolved name counts as failed if no connect attempt was started |
| `hostkey_untrusted_ca` | README.md:520: `server_host_certificate_invalid` means that the certificate "is signed by a CA trusted for the target" | the CA is looked up as a host key, for which a plain line will do: with its signer listed plainly, even a valid certificate is reported as an invalid one of a trusted CA |
| `config_hostnames` | ssh_transport_exporter.example.yaml:6-7: "hostname patterns match only hostname targets, IP/CIDR only IP targets" | the matchers of hostname patterns compare text: `*.0.0.1` matches IPv4 literals, and so does a literal written with a trailing dot |
| `config_allow_all` | README.md:286-288: `--allow-all-targets` only relaxes refusal "when no list is configured anywhere" | only the top-level list is looked at: a module without a list may probe anything although another has one |
| `lifecycle_term` | main.go:228-229: runs "until a termination signal arrives on sigCh" | a SIGTERM that arrives while a SIGHUP not yet received is in the channel is dropped |

Smaller disagreements met while modelling, without a run of their own:

- README.md:426-428 says that the `*_success` gauge of the phase that failed is `0` and
  its duration omitted; for a rejected host key `key_exchange` is the failed phase
  (`probe.go:387-390`) while `key_exchange_success` is 1 and has its duration
  (`collector.go:341-344`).
- README.md:253-254 says that the effective timeout is "the **smaller** of the
  two"; a scrape timeout up to the offset is ignored (`probehttp.go:156-169`).
- The comment on `serve` (`main.go:229-230`) says that it returns once requests have
  drained; after the deadline of 10 s it returns with requests in flight.
  `DrainedBeforeReturn` states the exception.
- README.md:182 speaks of plain host keys; a key that is listed as
  `@cert-authority` passes as a host key as well (`classify_test.go:251`).

### Bounds

- `MaxTime`: with 3 ticks up to four of the clock readings differ, enough for any
  pair of adjacent phases to have different lengths. The proofs need no bound.
- `MaxRekeys`: one later verdict that differs from the first is enough to replace
  it or to arrive after the return.
- Two host key errors distinguish a wrong reason from a right one.
- Three keys: the key, its CA, and one that is neither.
- Two requests and a limit of one reach the limit, shed a request, and let a slot
  be taken again; a limit of 0 runs without a semaphore.
- Configuration files: ports around both ends of their range and absent, empty and
  set lists on both levels; two modules with every combination of lists and the
  flag; every list of algorithms with and without an unknown name; every pattern
  of up to three labels. The families are not multiplied with each other, as the
  code treats these settings one by one.
- Three actors reload, main, a POST and the signal goroutine, the last of them up to
  three times; with one edit an older load can be overtaken by a newer one. Two signals
  fill the channel, and the third arrives while one is handled and one waits. Further
  POSTs run the same code as the first; the proofs hold for any number of them, of
  edits and of signals.

### Fairness

- `Probe`: `Run` and the callbacks run on goroutines that the Go scheduler keeps
  running; the context has a deadline (`probehttp.go:116`), the dialer
  honours it, and an operation on a closed connection fails. No fairness for the
  resolver, connect attempts, the server or the clock.
- `Handler`: each request's goroutine keeps running. That a probe ends is
  `Termination` of `Probe`.
- `Lifecycle`: the goroutines keep running and the deadline of the shutdown
  expires. None for edits, signals, requests, or the end of `slow`. Weak fairness is
  enough for `PostsAnswered`, as only finitely many reloads compete for the mutex in an
  instance; in the program `sync.Mutex` does not starve a waiter.

## Proofs

| Module | Theorem | Property |
|---|---|---|
| `ProbeProofs` | `TypeCorrect` | `TypeOK` |
| | `PhasesInOrder` | `PhaseOrder` |
| | `FailuresExplained` | `FailureExplained` |
| | `FirstVerdictReported` | `VerdictIsFirst` |
| | `OwnCloseExplained` | `OwnCloseBlamedOnContext` |
| | `PhasesFitIntoProbe` | `DurationsFit` |
| | `ClimbsTheLadder` | `ImplementsPhaseLadder` |
| `HostKeyProofs` | `AcceptedIfVouched` | `AcceptedIffVouched` |
| | `ReasonsTellCause` | `ReasonTellsCause` |
| `IdentProofs` | `IdentificationNotMissed` | `NoIdentificationMissed` |
| | `ExportedIsSent` | `ExportedAsSent` |
| | `RatedAsSent` | `ConformanceOfTheLine` |
| | `OnlyPrintable` | `OnlyPrintableExported` |
| `CollectorProofs` | `MetricsGather` | `GatherSucceeds` |
| | `DurationsOfSuccesses` | `DurationIffSuccess` |
| | `AlgorithmsAfterKeyExchange` | `AlgorithmsOnlyWithKeyExchange` |
| | `SuccessXorError` | `SuccessOrErrorInfo` |
| `HandlerProofs` | `TypeCorrect` | `TypeOK` |
| | `SlotsAccounted` | `SlotAccounting` |
| | `AllowedByOneConfig` | `ProbeAllowedByOneConfig` |
| | `CountedOnce` | `CountedOnceAsSent` |
| | `SeriesBounded` | `NoSeriesForUnknownModules` |
| | `RoomToAnswer` | `TimeoutLeavesRoom` |
| `ConfigProofs` | `LoadedIfAllValid` | `LoadedIffAllValid` |
| | `ProbedIfConfigured` | `ProbedIffConfigured` |
| | `NoneDropped` | `AdvertisedAsConfigured` |
| `LifecycleProofs` | `NeverGoesBack` | `LiveNeverGoesBack` |
| | `GaugesAreTrue` | `GaugeTellsLiveIsLatest` |
| | `AnswersAreTrue` | `ReloadAnswerIsTrue` |
| | `AlwaysReady` | `ServesAValidConfig` |
| | `DrainedFirst` | `DrainedBeforeReturn` |
| `LifecycleRefinement` | `Linearizable` | `ImplementsAtomicReload` |

The assumptions are those that the modules state on their constants. `LifecycleProofs`
also proves `TypeCorrect`, the types of `Lifecycle`, which is a lemma of the others and
has no run.

### Probe

The theorems hold for every bound on the clock and on key exchanges, every set of
host key errors and identifications, and both values of the option to strip
comments. None of the invariants is inductive, as they speak of a result that is
put together over many steps. `IInv` says what each position of `Run` knows:

- `ClockInv`: the readings are ordered like the phases, and each is there when it is
  subtracted from. This makes durations natural numbers (`TypeOK`). The first
  connect attempt does not come after the end of the dial, because a late one finds
  `connectStart` set.
- `ConnInv`: while the handshake goes on, a closed connection means that the context
  has ended; hence `classifyKexError` asks the context first.
- `VerdictInv`: from the first verdict until `RecordHostKey` the channel holds it,
  as later ones are dropped; no later key exchange comes without a first.
- `OutcomeInv`: which fields of the result are set at which position, and what
  the recorded outcome of the handshake says.
- `DurationInv`: how much of the time passed the recorded durations use.
- `ReportInv`: the properties themselves, from `return` on.

`NextInv` has one step per action and under it one per part of `IInv`; the
lemmas `DNSLookupRecorded`, `VersionExchangeRecorded`, `HostKeyRecorded` and
`FailureRecorded` say what each part of `Run` that fills in the result does to it,
`ClassifiedReason` and `ContextOutranks` what classification returns.

The refinement of `PhaseLadder` needs `LadderInv` on top of `IInv`. `ErrorInv` says what
an error tells about the phase: a DNS error comes before any attempt, a refused
connection after one, a failed negotiation after the identification and before a
verdict. `ReachedInv` says that the successes in the result are the phases before
the one reached, and `CauseInv` that the reason recorded is one of that phase and
stays one when the context ends afterwards (`CausesKept`). `DialCause` and `KexCause`
compare the two classifications with `Causes`. `NextLadder` has one step per kind of
action; `ReturnStops` is the one that reports.

### HostKey

The theorems hold for any sets of keys and of signature formats and any known_hosts
over them. The callback judges once, from its inputs alone, so the invariant only
says that the verdict is the one of these inputs. The work is in what the lookups
return: `PlainLookup` and `CertificateLookup` characterise each error of the external
callback, `FallenBack` and `CertificateJudged` what is made of two errors, and
`Judged` puts the cases together. It says what the code does for every signer;
`ReasonsTellCause` compares that with the table of reasons, where the table applies.

### Ident

The theorems hold for every limit above 2 and for lines of any length. `IInv` says
that the watcher's line is the first `maxIdentificationLen + 2` bytes of the line
sent (`LineInv`), that the identification is made once, from that line
(`ReceivedInv`), and that what is exported is what the parser makes of it
(`ExportInv`). `CutOrWhole` is the step that explains the `+ 2` in the code: either
nothing was cut, or what was kept is too long to be accepted even after its CR is
trimmed, as the whole line is. `AcceptedIffWellFormed` compares the parser, which
cuts at the first space, with a grammar that only says that there is a position
where softwareversion ends. The first space is a least number; that there is one
follows from the well-foundedness of the natural numbers (`LeastNumber`).

### Collector

The theorems hold for every instance of `Probe` and use its `IInv`, which says what
a returned result can be. `Sends(s, M, D)` says that the sequence `s` consists of
the metrics `M`, with descriptors from `D`, each with a value per label, and has no
duplicates. Lemmas
put it together for one metric, for a part that is sent under a condition (`When`)
and for two parts whose metrics are apart; five lemmas apply this to the groups of
`Collect`. `AlgorithmInv` is the invariant that the code leaves implicit: the
algorithms are set only by the callback whose error `Run` takes for the success of
the key exchange.

### Handler

The theorems hold for every finite set of requests, all configurations, queries and
limits, and every timeout and offset that `flags.validate` lets through. `IInv` says
that the semaphore and the gauge count the requests at certain positions
(`Accounts`), that the counter counts those that were counted (`Counts`), and what
each request knows (`Known`): its configuration was live since it arrived, it
passed the checks under that configuration, and what it is about to count is what
its client was sent. The cardinalities change by at most one in each step
(`OneMoves`); `AccountsMove`, `CountsMove` and `KnownMove` apply this to a step of one
request, and the action lemmas say which position it comes from and goes to. That
a slot is given back only if it was taken needs no invariant of its own: a request at
`release` is in the counted set, so the semaphore is not empty (`NotEmpty`).

### Config

The theorems hold for every file and every request that the assumptions admit, so
for names of any length and any number of modules. Three layers:

- Patterns. `HostnameIs` says what normalisation returns. `RefusedIffMeaningless`
  compares the order of checks in `buildTarget` with `Meaningless`, `MatchedIffFits`
  says what each kind of matcher matches, and `MatchedIffDenoted` that this is what
  `Denotes` says and `SpellsIP` besides; for wildcards (`WildcardMatches`) it rests on `PrefixedName`: a label before a name that is not
  empty does not change what becomes of its trailing dot.
- Modules. `ResolvedModule` says that what a module inherits is what `PortFor`,
  `PortsFor` and `PatternsFor` say, and `ValidIffNotRefused` that the checks of both
  loops together are `Valid`. `FlagCounts` is why it is enough that `loadRawConfig`
  looks at the list of the file only: a module without patterns has none from the
  file either.
- The loops. `ResolveInv` and `BuildInv` say that the modules a loop has come to are
  resolved, or built, without an error and the others are as they were;
  `FailedInv` that a failure has a module that is not valid behind it. Neither
  mentions an order.

### Lifecycle

The theorems hold for every set of POSTs and every bound on edits and signals.
`IInv` has four parts besides the types:

- `Exclusion`: exactly the holder of the mutex is inside `reload`; main is, without
  the mutex, while nobody else can be. `loader` names the one that is inside.
- `Ordered`: live <= version loaded last <= version of the file, and while the
  loader has something to store, that is the version loaded last. With `Exclusion`
  this is why `Store` cannot go back: nobody else can have stored since the load.
- `Gauges`: `successful` tells how the last load ended, except between `Build` and
  `Record`, and if that load succeeded `live` is what it read, except from `Load` to
  `Store`; between record and store the gauges are ahead of `live`.
- `Promised`: what each POST read is not older than its arrival, and from the store
  on `live` is at least that.

`AlwaysReady` needs `QuietStart` as well: no request is in flight before `serve`.
`DrainedFirst` needs `Drain`: the server is closed before the wait for the drain, so
no request arrives after it, and `serve` returns without an error only if it was.
In `LifecycleRefinement`, `StepRefines` has one step per action: `LoadReads` is the
atomic read and `BuildReloads` the atomic reload, `RequestAsks` and `UnlockReturns` its beginning and its end, and
`LockUnseen`, `RecordUnseen`, `StoreUnseen`, `StartServeUnseen` and `OtherUnseen` are
stutters. It rests on `IInv`, without which record and store would not be covered
by what the loader has loaded.

### Only model-checked

`Termination`, `Quiesces`, `ReloadedAfterHUP`, `PostsAnswered` and `ServeEnds`, because liveness is
beyond the prover. All invariants and action properties that the passing runs check
are proved, and so are both refinements. The runs that expect a violation are TLC's.

Besides the assumptions the proofs rest on the library's theorems about sequences,
finite sets and well-founded relations. Two conventions of the modules are there to
make them possible: where several checks are made in order, nested `IF`s are used,
because TLA+ does not order the arms of a `CASE`; and strings that proofs about
numbers or sequences meet are neither empty nor have spaces.

## Not modelled, and plan

Left out for good: logging, YAML and URL syntax, the parsing of known_hosts lines,
`Describe`, the system call behind `TCPMSS` (whether it succeeds is modelled), the file
descriptor warning at start-up, constant pages, build information, test support.

What could follow: a composition of `Handler` and `Lifecycle`, in which the requests
being drained are those holding slots.
