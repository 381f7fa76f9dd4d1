--------------------------- MODULE HandlerProofs ---------------------------
(***************************************************************************)
(* Proofs about Handler, for any finite set of requests, any               *)
(* configurations, queries and limits, and any timeout and offset.         *)
(*                                                                         *)
(* The invariants count sets of requests.  One request moves at a time, so *)
(* each step adds at most one element to such a set or takes one away      *)
(* (OneMoves), and the semaphore, the gauge and the counter follow.        *)
(***************************************************************************)
EXTENDS Handler, FiniteSetTheorems, TLAPS

\* The requests that hold a slot, those whose probe runs, and those counted under a
\* module label and a status code.
Holders       == {r \in Requests : HoldsSlot(r)}
Probers       == {r \in Requests : Probing(r)}
Entries(l, c) == {r \in Requests : /\ Counted(r)
                                   /\ status[r] = c
                                   /\ l = countLabel(modules[r], query[r])}

\* Semaphore and gauge count the requests (probehttp.go:102-117).
Accounts ==
    /\ maxConcurrent > 0 => sem = Cardinality(Holders)
    /\ inFlight = Cardinality(Probers)

\* The counter counts the requests (probehttp.go:122-124, 139-150).
Counts == \A l \in Labels, c \in Codes : requests[<<l, c>>] = Cardinality(Entries(l, c))

\* From the acquisition of a slot to the end of the probe.
Passed == {"acquire", "start", "probing", "served", "counted"}

\* What a request knows: its configuration was live since it arrived and, once past the
\* checks, allows it; what is counted is what was sent; its timeout is the effective one.
Knows(r) ==
    /\ pc[r] # "idle" => live \in seen[r]
    /\ pc[r] \notin {"idle", "load"} => modules[r] \in seen[r]
    /\ pc[r] \in Passed => Check(modules[r], query[r]) = 0
    /\ pc[r] \in {"rejected", "served"} => code[r] \in Codes /\ status[r] = code[r]
    /\ pc[r] = "idle" => timeout[r] = 0
    /\ timeout[r] # 0 => timeout[r] = effectiveTimeout(query[r].scrapeTimeout)

Known == \A r \in Requests : Knows(r)

IInv == TypeOK /\ Accounts /\ Counts /\ Known

-----------------------------------------------------------------------------
(***************************************************************************)
(* Facts about sets and about the operators of the handler.                *)
(***************************************************************************)
\* Two sets that differ in one element at most.
LEMMA OneMoves ==
  ASSUME NEW S, NEW T, NEW x, IsFiniteSet(S), \A y : y # x => (y \in S <=> y \in T)
  PROVE  /\ IsFiniteSet(T) /\ Cardinality(S) \in Nat /\ Cardinality(T) \in Nat
         /\ (x \in S <=> x \in T) => Cardinality(T) = Cardinality(S)
         /\ (x \notin S /\ x \in T) => Cardinality(T) = Cardinality(S) + 1
         /\ (x \in S /\ x \notin T) => Cardinality(T) = Cardinality(S) - 1
<1>1. CASE x \in S <=> x \in T
  <2>1. T = S
    BY <1>1
  <2> QED
    BY <2>1, FS_CardinalityType
<1>2. CASE x \notin S /\ x \in T
  <2>1. T = S \cup {x}
    BY <1>2
  <2> QED
    BY <1>2, <2>1, FS_AddElement, FS_CardinalityType
<1>3. CASE x \in S /\ x \notin T
  <2>1. T = S \ {x}
    BY <1>3
  <2> QED
    BY <1>3, <2>1, FS_RemoveElement, FS_CardinalityType
<1> QED
  BY <1>1, <1>2, <1>3

\* Sets of requests are finite.
LEMMA FiniteRequests ==
  /\ IsFiniteSet(Holders) /\ IsFiniteSet(Probers)
  /\ \A l, c : IsFiniteSet(Entries(l, c))
<1>1. \A S \in SUBSET Requests : IsFiniteSet(S)
  BY RequestsAssumption, FS_Subset
<1> QED
  BY <1>1 DEF Holders, Probers, Entries

\* The checks answer with one of two codes.
LEMMA CheckCodes ==
  ASSUME NEW ms, NEW q
  PROVE  Check(ms, q) \in {0, 400, 403}
<1>1. CASE moduleName(q) \notin DOMAIN ms
  BY <1>1 DEF Check
<1>2. CASE moduleName(q) \in DOMAIN ms /\ q.target \in {"missing", "malformed"}
  BY <1>2 DEF Check
<1>3. CASE moduleName(q) \in DOMAIN ms /\ q.target \notin {"missing", "malformed"}
  BY <1>3 DEF Check
<1> QED
  BY <1>1, <1>2, <1>3

\* What passes the checks is allowed, host, port and module together.
LEMMA CheckAllows ==
  ASSUME NEW ms, NEW q, Check(ms, q) = 0
  PROVE  /\ moduleName(q) \in DOMAIN ms
         /\ q.host \in ms[moduleName(q)].AllowedTargets
         /\ ensurePort(q, ms[moduleName(q)].TargetPort) \in ms[moduleName(q)].AllowedPorts
<1>1. CASE moduleName(q) \notin DOMAIN ms
  BY <1>1 DEF Check
<1>2. CASE moduleName(q) \in DOMAIN ms /\ q.target \in {"missing", "malformed"}
  BY <1>2 DEF Check
<1>3. CASE moduleName(q) \in DOMAIN ms /\ q.target \notin {"missing", "malformed"}
  BY <1>3 DEF Check, targetAllowed
<1> QED
  BY <1>1, <1>2, <1>3

\* The status recorder holds what the client was sent (probehttp.go:172-190).
LEMMA RecordedAsSent ==
  ASSUME NEW rec \in Responses
  PROVE  rec.status \in {200, 500} /\ rec.status = IF rec.sent = 0 THEN 200 ELSE rec.sent
<1>1. /\ Write(newStatusRecorder).status = 200
      /\ Write(newStatusRecorder).sent = 200
      /\ Write(newStatusRecorder).wroteHeader
  BY DEF newStatusRecorder, Write
<1>2. WriteHeader(newStatusRecorder, 500) = [status |-> 500, wroteHeader |-> TRUE, sent |-> 500]
  BY DEF newStatusRecorder, WriteHeader
<1>3. /\ Write(WriteHeader(newStatusRecorder, 500)).status = 500
      /\ Write(WriteHeader(newStatusRecorder, 500)).sent = 500
  BY <1>2 DEF Write
<1>4. /\ WriteHeader(Write(newStatusRecorder), 500).status = 200
      /\ WriteHeader(Write(newStatusRecorder), 500).sent = 200
  BY <1>1 DEF WriteHeader
<1>5. newStatusRecorder.status = 200 /\ newStatusRecorder.sent = 0
  BY DEF newStatusRecorder
<1> QED
  BY <1>1, <1>3, <1>4, <1>5 DEF Responses

\* A label is the name of a module of some configuration, or stands for none.
LEMMA LabelKnown ==
  ASSUME TypeOK, NEW r \in Requests
  PROVE  /\ countLabel(modules[r], query[r]) \in {moduleUnresolved} \cup Names(Configs)
         /\ countLabel(modules[r], query[r]) \in Labels
<1>1. modules[r] \in Configs \/ modules[r] = NoModules
  BY DEF TypeOK
<1>2. DOMAIN modules[r] \subseteq Names(Configs)
  BY <1>1 DEF Names, NoModules
<1> QED
  BY <1>2 DEF countLabel, Labels

\* The scrape timeout of a request is a number.
LEMMA ScrapeTimeoutType ==
  ASSUME TypeOK, NEW r \in Requests
  PROVE  query[r].scrapeTimeout \in Int
BY QueriesAssumption DEF TypeOK, NoQuery, NoHeader

\* The effective timeout is positive and bounded, and leaves room for the offset.
LEMMA EffectiveTimeout ==
  ASSUME NEW s \in Int
  PROVE  /\ effectiveTimeout(s) \in 1..Timeout
         /\ s > TimeoutOffset => effectiveTimeout(s) + TimeoutOffset <= s
BY TimeoutAssumption DEF effectiveTimeout, NoHeader, Unusable

-----------------------------------------------------------------------------
(***************************************************************************)
(* The steps.                                                              *)
(***************************************************************************)
\* The actions of Next, one by one.
LEMMA NextCases ==
  ASSUME [Next]_vars
  PROVE  \/ \E c \in Configs : Reload(c)
         \/ \E r \in Requests, q \in Queries : Arrive(r, q)
         \/ \E r \in Requests : LoadModules(r) \/ CheckRequest(r) \/ Acquire(r) \/ Shed(r)
         \/ \E r \in Requests : StartProbe(r) \/ \E rec \in Responses : ServeMetrics(r, rec)
         \/ \E r \in Requests : CountRejected(r) \/ CountServed(r)
         \/ \E r \in Requests : DecInFlight(r) \/ Release(r)
         \/ UNCHANGED vars
BY DEF Next, Handle

\* Counting a request keeps the type of the counter.
LEMMA CountType ==
  ASSUME TypeOK, NEW r \in Requests, code[r] \in Codes, Count(r)
  PROVE  requests' \in [Labels \X Codes -> Nat]
<1> DEFINE lc == <<countLabel(modules[r], query[r]), code[r]>>
<1>1. lc \in Labels \X Codes
  BY LabelKnown
<1>2. requests \in [Labels \X Codes -> Nat] /\ requests' = [requests EXCEPT ![lc] = @ + 1]
  BY DEF TypeOK, Count
<1> QED
  BY <1>1, <1>2

\* A request that holds a slot, or whose probe runs, has been counted.
LEMMA NotEmpty ==
  ASSUME IInv, NEW r \in Requests
  PROVE  /\ HoldsSlot(r) /\ maxConcurrent > 0 => sem > 0
         /\ Probing(r) => inFlight > 0
<1>1. HoldsSlot(r) => Holders # {}
  BY DEF Holders
<1>2. Probing(r) => Probers # {}
  BY DEF Probers
<1>3. \A S : IsFiniteSet(S) /\ S # {} => Cardinality(S) > 0
  BY FS_EmptySet, FS_CardinalityType
<1> QED
  BY <1>1, <1>2, <1>3, FiniteRequests DEF IInv, Accounts

\* Every variable keeps its type; the semaphore keeps to its capacity.
LEMMA TypeStep ==
  ASSUME IInv, [Next]_vars
  PROVE  TypeOK'
<1> USE DEF TypeOK, requestVars, Codes
<1>0. TypeOK /\ maxConcurrent \in Nat
  BY LimitsAssumption DEF IInv
<1>1. CASE \E c \in Configs : Reload(c)
  <2> PICK c \in Configs : Reload(c)
    BY <1>1
  <2>1. seen' \in [Requests -> SUBSET Configs]
    BY <1>0 DEF Reload
  <2> QED
    BY <1>0, <2>1 DEF Reload
<1>2. CASE \E r \in Requests, q \in Queries : Arrive(r, q)
  BY <1>0, <1>2 DEF Arrive
<1>3. CASE \E r \in Requests : LoadModules(r)
  BY <1>0, <1>3 DEF LoadModules
<1>4. CASE \E r \in Requests : CheckRequest(r)
  <2> PICK r \in Requests : CheckRequest(r)
    BY <1>4
  <2>1. CASE Check(configFor(r), query[r]) = 0
    BY <1>0, <2>1 DEF CheckRequest
  <2>2. CASE Check(configFor(r), query[r]) # 0
    <3>1. Check(configFor(r), query[r]) \in {400, 403}
      BY <2>2, CheckCodes
    <3> QED
      BY <1>0, <2>2, <3>1 DEF CheckRequest, writeError
  <2> QED
    BY <2>1, <2>2
<1>5. CASE \E r \in Requests : Acquire(r)
  BY <1>0, <1>5 DEF Acquire
<1>6. CASE \E r \in Requests : Shed(r)
  BY <1>0, <1>6 DEF Shed, writeError
<1>7. CASE \E r \in Requests : StartProbe(r)
  <2> PICK r \in Requests : StartProbe(r)
    BY <1>7
  <2>1. effectiveTimeout(query[r].scrapeTimeout) \in 0..Timeout
    BY <1>0, ScrapeTimeoutType, EffectiveTimeout, TimeoutAssumption
  <2> QED
    BY <1>0, <2>1 DEF StartProbe
<1>8. CASE \E r \in Requests, rec \in Responses : ServeMetrics(r, rec)
  <2> PICK r \in Requests, rec \in Responses : ServeMetrics(r, rec)
    BY <1>8
  <2> DEFINE s == IF rec.sent = 0 THEN 200 ELSE rec.sent
  <2>1. rec.status \in Codes /\ s \in Codes
    BY RecordedAsSent
  <2>2. status' = [status EXCEPT ![r] = s] /\ code' = [code EXCEPT ![r] = rec.status]
    BY DEF ServeMetrics
  <2> HIDE DEF s
  <2>3. status' \in [Requests -> Codes \cup {0}] /\ code' \in [Requests -> Codes \cup {0}]
    BY <1>0, <2>1, <2>2
  <2> QED
    BY <1>0, <2>3 DEF ServeMetrics
<1>9. CASE \E r \in Requests : CountRejected(r) \/ CountServed(r)
  <2> PICK r \in Requests : CountRejected(r) \/ CountServed(r)
    BY <1>9
  <2>1. code[r] \in Codes /\ Count(r)
    BY DEF CountRejected, CountServed, IInv, Known, Knows
  <2>2. requests' \in [Labels \X Codes -> Nat]
    BY <1>0, <2>1, CountType
  <2> QED
    BY <1>0, <2>2 DEF CountRejected, CountServed
<1>10. CASE \E r \in Requests : DecInFlight(r)
  <2> PICK r \in Requests : DecInFlight(r)
    BY <1>10
  <2>1. inFlight > 0
    BY NotEmpty DEF DecInFlight, Probing
  <2> QED
    BY <1>0, <2>1 DEF DecInFlight
<1>11. CASE \E r \in Requests : Release(r)
  <2> PICK r \in Requests : Release(r)
    BY <1>11
  <2>1. maxConcurrent > 0 => sem > 0
    BY NotEmpty DEF Release, HoldsSlot
  <2> QED
    BY <1>0, <2>1 DEF Release, released
<1>12. CASE UNCHANGED vars
  BY <1>0, <1>12 DEF vars
<1> QED
  BY NextCases, <1>1, <1>2, <1>3, <1>4, <1>5, <1>6, <1>7, <1>8, <1>9, <1>10, <1>11, <1>12

\* Only the request that moves changes its position.
LEMMA Moved ==
  ASSUME TypeOK, NEW r \in Requests, NEW s, pc' = [pc EXCEPT ![r] = s]
  PROVE  pc'[r] = s /\ \A q \in Requests : q # r => pc'[q] = pc[q]
BY DEF TypeOK

\* Semaphore and gauge follow a request that moves.
LEMMA AccountsMove ==
  ASSUME IInv, NEW r \in Requests, NEW s, pc' = [pc EXCEPT ![r] = s], maxConcurrent' = maxConcurrent,
         maxConcurrent > 0 =>
           \/ (HoldsSlot(r) <=> HoldsSlot(r)') /\ sem' = sem
           \/ ~HoldsSlot(r) /\ HoldsSlot(r)' /\ sem' = sem + 1
           \/ HoldsSlot(r) /\ ~HoldsSlot(r)' /\ sem' = sem - 1,
         \/ (Probing(r) <=> Probing(r)') /\ inFlight' = inFlight
         \/ ~Probing(r) /\ Probing(r)' /\ inFlight' = inFlight + 1
         \/ Probing(r) /\ ~Probing(r)' /\ inFlight' = inFlight - 1
  PROVE  Accounts'
<1>1. \A q \in Requests : q # r => pc'[q] = pc[q]
  BY Moved DEF IInv
<1>2. /\ \A q : q # r => (q \in Holders <=> q \in Holders')
      /\ r \in Holders <=> HoldsSlot(r)
      /\ r \in Holders' <=> HoldsSlot(r)'
  BY <1>1 DEF Holders, HoldsSlot
<1>3. /\ \A q : q # r => (q \in Probers <=> q \in Probers')
      /\ r \in Probers <=> Probing(r)
      /\ r \in Probers' <=> Probing(r)'
  BY <1>1 DEF Probers, Probing
<1>4. maxConcurrent > 0 => sem' = Cardinality(Holders')
  <2>1. /\ (r \in Holders <=> r \in Holders') => Cardinality(Holders') = Cardinality(Holders)
        /\ (r \notin Holders /\ r \in Holders') => Cardinality(Holders') = Cardinality(Holders) + 1
        /\ (r \in Holders /\ r \notin Holders') => Cardinality(Holders') = Cardinality(Holders) - 1
    BY <1>2, OneMoves, FiniteRequests
  <2>2. maxConcurrent > 0 => sem = Cardinality(Holders)
    BY DEF IInv, Accounts
  <2> QED
    BY <1>2, <2>1, <2>2
<1>5. inFlight' = Cardinality(Probers')
  <2>1. /\ (r \in Probers <=> r \in Probers') => Cardinality(Probers') = Cardinality(Probers)
        /\ (r \notin Probers /\ r \in Probers') => Cardinality(Probers') = Cardinality(Probers) + 1
        /\ (r \in Probers /\ r \notin Probers') => Cardinality(Probers') = Cardinality(Probers) - 1
    BY <1>3, OneMoves, FiniteRequests
  <2>2. inFlight = Cardinality(Probers)
    BY DEF IInv, Accounts
  <2> QED
    BY <1>3, <2>1, <2>2
<1> QED
  BY <1>4, <1>5 DEF Accounts

\* The counter follows a request that moves: it is counted in the step that counts it, and
\* nothing the counter depends on changes before or after.
LEMMA CountsMove ==
  ASSUME IInv, NEW r \in Requests, NEW s, pc' = [pc EXCEPT ![r] = s],
         \A q \in Requests : q # r => /\ status'[q] = status[q]
                                      /\ modules'[q] = modules[q] /\ query'[q] = query[q],
         \/ requests' = requests /\ ~Counted(r) /\ ~Counted(r)'
         \/ /\ requests' = requests /\ Counted(r) /\ Counted(r)'
            /\ UNCHANGED <<status, modules, query>>
         \/ /\ Count(r) /\ ~Counted(r) /\ Counted(r)'
            /\ UNCHANGED <<status, modules, query>>
            /\ code[r] \in Codes /\ status[r] = code[r]
  PROVE  Counts'
<1> SUFFICES ASSUME NEW l \in Labels, NEW c \in Codes
             PROVE  requests'[<<l, c>>] = Cardinality(Entries(l, c)')
  BY DEF Counts
<1>1. \A q \in Requests : q # r => pc'[q] = pc[q]
  BY Moved DEF IInv
<1>2. \A q : q # r => (q \in Entries(l, c) <=> q \in Entries(l, c)')
  BY <1>1 DEF Entries, Counted
<1>3. requests[<<l, c>>] = Cardinality(Entries(l, c)) /\ requests[<<l, c>>] \in Nat
  BY DEF IInv, TypeOK, Counts
<1> DEFINE S == Entries(l, c)
           T == Entries(l, c)'
<1>4. /\ (r \in S <=> r \in T) => Cardinality(T) = Cardinality(S)
      /\ (r \notin S /\ r \in T) => Cardinality(T) = Cardinality(S) + 1
  <2>1. IsFiniteSet(S)
    BY FiniteRequests
  <2> HIDE DEF S, T
  <2>2. \A q : q # r => (q \in S <=> q \in T)
    BY <1>2 DEF S, T
  <2> QED
    BY <2>1, <2>2, OneMoves
<1>5. CASE requests' = requests
  <2>1. r \in S <=> r \in T
    BY <1>5, LabelKnown DEF Entries, Count, IInv, TypeOK
  <2> QED
    BY <1>3, <1>4, <1>5, <2>1
<1>6. CASE requests' # requests
  <2>1. /\ Count(r) /\ ~Counted(r) /\ Counted(r)'
        /\ UNCHANGED <<status, modules, query>>
        /\ code[r] \in Codes /\ status[r] = code[r]
    BY <1>6
  <2> DEFINE lc == <<countLabel(modules[r], query[r]), code[r]>>
  <2>2. lc \in Labels \X Codes
    BY <2>1, LabelKnown DEF IInv
  <2>3. requests' = [requests EXCEPT ![lc] = @ + 1]
    BY <2>1 DEF Count
  <2>4. r \notin S /\ (r \in T <=> lc = <<l, c>>)
    BY <2>1 DEF Entries
  <2>5. CASE lc = <<l, c>>
    <3>1. requests'[<<l, c>>] = requests[<<l, c>>] + 1
      BY <2>2, <2>3, <2>5 DEF IInv, TypeOK
    <3> QED
      BY <1>3, <1>4, <2>4, <2>5, <3>1
  <2>6. CASE lc # <<l, c>>
    <3>1. requests'[<<l, c>>] = requests[<<l, c>>]
      BY <2>2, <2>3, <2>6 DEF IInv, TypeOK
    <3> QED
      BY <1>3, <1>4, <2>4, <2>6, <3>1
  <2> QED
    BY <2>5, <2>6
<1> QED
  BY <1>5, <1>6

\* A step of one request, whose own knowledge is kept, keeps everybody's.
LEMMA KnownMove ==
  ASSUME IInv, NEW r \in Requests, NEW s, pc' = [pc EXCEPT ![r] = s], live' = live, Knows(r)',
         \A q \in Requests : q # r => /\ seen'[q] = seen[q] /\ modules'[q] = modules[q]
                                      /\ query'[q] = query[q] /\ code'[q] = code[q]
                                      /\ status'[q] = status[q] /\ timeout'[q] = timeout[q]
  PROVE  Known'
<1>1. \A q \in Requests : q # r => pc'[q] = pc[q]
  BY Moved DEF IInv
<1> QED
  BY <1>1 DEF IInv, Known, Knows

\* A reload changes what no request has loaded yet.
LEMMA ReloadStep ==
  ASSUME IInv, NEW c \in Configs, Reload(c)
  PROVE  Accounts' /\ Counts' /\ Known'
<1>1. live' = c /\ UNCHANGED <<maxConcurrent, pc, query, modules, status, code, timeout, sem,
                               inFlight, requests>>
  BY DEF Reload, requestVars
<1>2. \A r \in Requests : pc[r] # "idle" => seen'[r] = seen[r] \cup {c}
  BY DEF Reload
<1>3. Accounts'
  BY <1>1 DEF IInv, Accounts, Holders, Probers, HoldsSlot, Probing
<1>4. Counts'
  BY <1>1 DEF IInv, Counts, Entries, Counted
<1>5. Known'
  BY <1>1, <1>2 DEF IInv, Known, Knows
<1> QED
  BY <1>3, <1>4, <1>5

\* The arrival of a request.
LEMMA ArriveStep ==
  ASSUME IInv, NEW r \in Requests, NEW q \in Queries, Arrive(r, q)
  PROVE  Accounts' /\ Counts' /\ Known'
<1>1. /\ pc[r] = "idle" /\ pc' = [pc EXCEPT ![r] = "load"] /\ pc'[r] = "load"
      /\ UNCHANGED <<maxConcurrent, live, modules, status, code, timeout, sem, inFlight, requests>>
      /\ live \in seen'[r]
      /\ \A p \in Requests : p # r => query'[p] = query[p] /\ seen'[p] = seen[p]
  BY DEF Arrive, IInv, TypeOK
<1>2. Accounts'
  BY <1>1, AccountsMove DEF HoldsSlot, Probing
<1>3. Counts'
  BY <1>1, CountsMove DEF Counted
<1>4. Knows(r)'
  BY <1>1 DEF IInv, Known, Knows, Passed
<1>5. Known'
  BY <1>1, <1>4, KnownMove
<1> QED
  BY <1>2, <1>3, <1>5

\* The configuration is loaded once.
LEMMA LoadModulesStep ==
  ASSUME IInv, NEW r \in Requests, LoadModules(r)
  PROVE  Accounts' /\ Counts' /\ Known'
<1>1. /\ pc[r] = "load" /\ pc' = [pc EXCEPT ![r] = "check"] /\ pc'[r] = "check"
      /\ UNCHANGED <<maxConcurrent, live, query, status, code, timeout, sem, inFlight, requests,
                     seen>>
      /\ modules'[r] = live
      /\ \A p \in Requests : p # r => modules'[p] = modules[p]
  BY DEF LoadModules, IInv, TypeOK
<1>2. Accounts'
  BY <1>1, AccountsMove DEF HoldsSlot, Probing
<1>3. Counts'
  BY <1>1, CountsMove DEF Counted
<1>4. Knows(r)'
  BY <1>1 DEF IInv, Known, Knows, Passed
<1>5. Known'
  BY <1>1, <1>4, KnownMove
<1> QED
  BY <1>2, <1>3, <1>5

\* A request that is refused, by the checks or at the limit, has no slot.
LEMMA ErrorStep ==
  ASSUME IInv, NEW r \in Requests, pc[r] \in {"check", "acquire"}, NEW c \in Codes,
         writeError(r, c), sem' = sem
  PROVE  Accounts' /\ Counts' /\ Known'
<1>1. /\ pc' = [pc EXCEPT ![r] = "rejected"] /\ pc'[r] = "rejected"
      /\ UNCHANGED <<maxConcurrent, live, query, modules, timeout, inFlight, requests, seen>>
      /\ status'[r] = c /\ code'[r] = c
      /\ \A p \in Requests : p # r => status'[p] = status[p] /\ code'[p] = code[p]
  BY DEF writeError, IInv, TypeOK
<1>2. Accounts'
  BY <1>1, AccountsMove DEF HoldsSlot, Probing
<1>3. Counts'
  BY <1>1, CountsMove DEF Counted
<1>4. Knows(r)'
  BY <1>1 DEF IInv, Known, Knows, Passed
<1>5. Known'
  BY <1>1, <1>4, KnownMove
<1> QED
  BY <1>2, <1>3, <1>5

\* The checks, and the select on the semaphore.
LEMMA AdmissionStep ==
  ASSUME IInv, NEW r \in Requests, CheckRequest(r) \/ Acquire(r) \/ Shed(r)
  PROVE  Accounts' /\ Counts' /\ Known'
<1>1. CASE CheckRequest(r)
  <2>1. CASE Check(modules[r], query[r]) = 0
    <3>1. /\ pc[r] = "check" /\ pc' = [pc EXCEPT ![r] = "acquire"] /\ pc'[r] = "acquire"
          /\ UNCHANGED <<maxConcurrent, live, query, modules, status, code, timeout, sem, inFlight,
                         requests, seen>>
      BY <1>1, <2>1 DEF CheckRequest, configFor, requestVars, IInv, TypeOK
    <3>2. Accounts'
      BY <3>1, AccountsMove DEF HoldsSlot, Probing
    <3>3. Counts'
      BY <3>1, CountsMove DEF Counted
    <3>4. Knows(r)'
      BY <2>1, <3>1 DEF IInv, Known, Knows, Passed
    <3>5. Known'
      BY <3>1, <3>4, KnownMove
    <3> QED
      BY <3>2, <3>3, <3>5
  <2>2. CASE Check(modules[r], query[r]) # 0
    <3>1. /\ pc[r] = "check" /\ sem' = sem
          /\ writeError(r, Check(modules[r], query[r]))
          /\ Check(modules[r], query[r]) \in Codes
      BY <1>1, <2>2, CheckCodes DEF CheckRequest, configFor, Codes
    <3> QED
      BY <3>1, ErrorStep
  <2> QED
    BY <2>1, <2>2
<1>2. CASE Acquire(r)
  <2>1. /\ pc[r] = "acquire" /\ pc' = [pc EXCEPT ![r] = "start"] /\ pc'[r] = "start"
        /\ maxConcurrent > 0 => sem' = sem + 1
        /\ UNCHANGED <<maxConcurrent, live, query, modules, status, code, timeout, inFlight,
                       requests, seen>>
    BY <1>2 DEF Acquire, requestVars, IInv, TypeOK
  <2>2. Accounts'
    BY <2>1, AccountsMove DEF HoldsSlot, Probing
  <2>3. Counts'
    BY <2>1, CountsMove DEF Counted
  <2>4. Knows(r)'
    BY <2>1 DEF IInv, Known, Knows, Passed
  <2>5. Known'
    BY <2>1, <2>4, KnownMove
  <2> QED
    BY <2>2, <2>3, <2>5
<1>3. CASE Shed(r)
  <2>1. pc[r] = "acquire" /\ writeError(r, 503) /\ sem' = sem /\ 503 \in Codes
    BY <1>3 DEF Shed, Codes
  <2> QED
    BY <2>1, ErrorStep
<1> QED
  BY <1>1, <1>2, <1>3

\* The start of the probe and its response.
LEMMA ProbeStep ==
  ASSUME IInv, NEW r \in Requests, StartProbe(r) \/ \E rec \in Responses : ServeMetrics(r, rec)
  PROVE  Accounts' /\ Counts' /\ Known'
<1>1. CASE StartProbe(r)
  <2>1. /\ pc[r] = "start" /\ pc' = [pc EXCEPT ![r] = "probing"] /\ pc'[r] = "probing"
        /\ inFlight' = inFlight + 1
        /\ timeout'[r] = effectiveTimeout(query[r].scrapeTimeout)
        /\ \A p \in Requests : p # r => timeout'[p] = timeout[p]
        /\ UNCHANGED <<maxConcurrent, live, query, modules, status, code, sem, requests, seen>>
    BY <1>1 DEF StartProbe, IInv, TypeOK
  <2>2. Accounts'
    BY <2>1, AccountsMove DEF HoldsSlot, Probing
  <2>3. Counts'
    BY <2>1, CountsMove DEF Counted
  <2>4. Knows(r)'
    BY <2>1 DEF IInv, Known, Knows, Passed
  <2>5. Known'
    BY <2>1, <2>4, KnownMove
  <2> QED
    BY <2>2, <2>3, <2>5
<1>2. CASE \E rec \in Responses : ServeMetrics(r, rec)
  <2> PICK rec \in Responses : ServeMetrics(r, rec)
    BY <1>2
  <2>1. /\ pc[r] = "probing" /\ pc' = [pc EXCEPT ![r] = "served"] /\ pc'[r] = "served"
        /\ status'[r] = IF rec.sent = 0 THEN 200 ELSE rec.sent
        /\ code'[r] = rec.status
        /\ \A p \in Requests : p # r => status'[p] = status[p] /\ code'[p] = code[p]
        /\ UNCHANGED <<maxConcurrent, live, query, modules, timeout, sem, inFlight, requests, seen>>
    BY DEF ServeMetrics, IInv, TypeOK
  <2>2. status'[r] = code'[r] /\ code'[r] \in Codes
    BY <2>1, RecordedAsSent DEF Codes
  <2>3. Accounts'
    BY <2>1, AccountsMove DEF HoldsSlot, Probing
  <2>4. Counts'
    BY <2>1, CountsMove DEF Counted
  <2>5. Knows(r)'
    BY <2>1, <2>2 DEF IInv, Known, Knows, Passed
  <2>6. Known'
    BY <2>1, <2>5, KnownMove
  <2> QED
    BY <2>3, <2>4, <2>6
<1> QED
  BY <1>1, <1>2

\* The counter, and the deferred calls.
LEMMA EndStep ==
  ASSUME IInv, NEW r \in Requests,
         CountRejected(r) \/ CountServed(r) \/ DecInFlight(r) \/ Release(r)
  PROVE  Accounts' /\ Counts' /\ Known'
<1> DEFINE s == pc'[r]
<1>1. /\ pc' = [pc EXCEPT ![r] = s]
      /\ UNCHANGED <<maxConcurrent, live, query, modules, status, code, timeout, seen>>
      /\ s \in {"counted", "release", "done"}
      /\ s = "counted" => pc[r] = "served"
      /\ pc[r] \in {"rejected", "served", "counted", "release"}
  BY DEF CountRejected, CountServed, DecInFlight, Release, requestVars, IInv, TypeOK
<1>2. Knows(r)'
  BY <1>1 DEF IInv, Known, Knows, Passed
<1>3. Known'
  BY <1>1, <1>2, KnownMove
<1>4. CASE CountRejected(r) \/ CountServed(r)
  <2>1. /\ \/ pc[r] = "rejected" /\ s = "done"
           \/ pc[r] = "served" /\ s = "counted"
        /\ Count(r) /\ sem' = sem /\ inFlight' = inFlight
        /\ code[r] \in Codes /\ status[r] = code[r]
    BY <1>4 DEF CountRejected, CountServed, IInv, TypeOK, Known, Knows
  <2>2. Accounts'
    BY <1>1, <2>1, AccountsMove DEF HoldsSlot, Probing
  <2>3. Counts'
    BY <1>1, <2>1, CountsMove DEF Counted
  <2> QED
    BY <1>3, <2>2, <2>3
<1>5. CASE DecInFlight(r) \/ Release(r)
  <2>1. /\ \/ pc[r] = "counted" /\ s = "release" /\ sem' = sem /\ inFlight' = inFlight - 1
           \/ /\ pc[r] = "release" /\ s = "done" /\ inFlight' = inFlight
              /\ maxConcurrent > 0 => sem' = sem - 1
        /\ requests' = requests
    BY <1>5 DEF DecInFlight, Release, released, IInv, TypeOK
  <2>2. Accounts'
    BY <1>1, <2>1, AccountsMove DEF HoldsSlot, Probing
  <2>3. Counts'
    BY <1>1, <2>1, CountsMove DEF Counted
  <2> QED
    BY <1>3, <2>2, <2>3
<1> QED
  BY <1>4, <1>5

\* The invariant is inductive.
LEMMA Step ==
  ASSUME IInv, [Next]_vars
  PROVE  IInv'
<1>1. TypeOK'
  BY TypeStep
<1>2. CASE UNCHANGED vars
  <2>1. UNCHANGED <<maxConcurrent, live, pc, query, modules, status, code, timeout, sem, inFlight,
                    requests, seen>>
    BY <1>2 DEF vars, requestVars
  <2>2. Accounts'
    BY <2>1 DEF IInv, Accounts, Holders, Probers, HoldsSlot, Probing
  <2>3. Counts'
    BY <2>1 DEF IInv, Counts, Entries, Counted
  <2>4. Known'
    BY <2>1 DEF IInv, Known, Knows
  <2> QED
    BY <1>1, <2>2, <2>3, <2>4 DEF IInv
<1>3. CASE ~UNCHANGED vars
  <2>1. Accounts' /\ Counts' /\ Known'
    BY <1>3, NextCases, ReloadStep, ArriveStep, LoadModulesStep, AdmissionStep, ProbeStep, EndStep
  <2> QED
    BY <1>1, <2>1 DEF IInv
<1> QED
  BY <1>2, <1>3

\* Nothing has happened yet.
LEMMA InitIInv ==
  ASSUME Init
  PROVE  IInv
<1>1. TypeOK
  BY LimitsAssumption, TimeoutAssumption DEF Init, TypeOK
<1>2. Holders = {} /\ Probers = {} /\ \A l, c : Entries(l, c) = {}
  BY DEF Init, Holders, Probers, Entries, HoldsSlot, Probing, Counted
<1>3. Accounts
  BY <1>2, FS_EmptySet DEF Init, Accounts
<1>4. Counts
  BY <1>2, FS_EmptySet DEF Init, Counts
<1>5. Known
  BY DEF Init, Known, Knows, Passed
<1> QED
  BY <1>1, <1>3, <1>4, <1>5 DEF IInv

-----------------------------------------------------------------------------
(***************************************************************************)
(* The theorems.                                                           *)
(***************************************************************************)
\* The inductive invariant.
THEOREM Invariance == Spec => []IInv
<1>1. Init => IInv
  BY InitIInv
<1>2. IInv /\ [Next]_vars => IInv'
  BY Step
<1> QED
  BY <1>1, <1>2, PTL DEF Spec

\* Every variable keeps its type; in particular the semaphore never exceeds its capacity
\* and no count becomes negative (probehttp.go:102-117).
THEOREM TypeCorrect == Spec => []TypeOK
<1>1. IInv => TypeOK
  BY DEF IInv
<1> QED
  BY <1>1, Invariance, PTL

\* No path through the handler leaks a slot or gives back one it did not take, and the gauge
\* counts the running probes, which the limit bounds (probehttp.go:102-117).
THEOREM SlotsAccounted == Spec => []SlotAccounting
<1>1. IInv => SlotAccounting
  <2> SUFFICES ASSUME IInv PROVE SlotAccounting
    OBVIOUS
  <2>1. Cardinality(Probers) <= Cardinality(Holders)
    <3>1. Probers \in SUBSET Holders
      BY DEF Probers, Holders, Probing, HoldsSlot
    <3> QED
      BY <3>1, FiniteRequests, FS_Subset
  <2>2. Cardinality(Probers) \in Nat /\ Cardinality(Holders) \in Nat
    BY FiniteRequests, FS_CardinalityType
  <2>3. maxConcurrent > 0 => inFlight <= maxConcurrent
    BY <2>1, <2>2, LimitsAssumption DEF IInv, TypeOK, Accounts
  <2> QED
    BY <2>3 DEF IInv, Accounts, SlotAccounting, Holders, Probers
<1> QED
  BY <1>1, Invariance, PTL

\* A reload in the middle of a request never mixes two configurations (probehttp.go:71-100).
THEOREM AllowedByOneConfig == Spec => []ProbeAllowedByOneConfig
<1>1. IInv => ProbeAllowedByOneConfig
  <2> SUFFICES ASSUME IInv, NEW r \in Requests, Probing(r)
               PROVE  LET c == modules[r] IN
                        /\ c \in seen[r]
                        /\ moduleName(query[r]) \in DOMAIN c
                        /\ query[r].host \in c[moduleName(query[r])].AllowedTargets
                        /\ ensurePort(query[r], c[moduleName(query[r])].TargetPort)
                              \in c[moduleName(query[r])].AllowedPorts
    BY DEF ProbeAllowedByOneConfig
  <2>1. modules[r] \in seen[r] /\ Check(modules[r], query[r]) = 0
    BY DEF IInv, Known, Knows, Probing, Passed
  <2> QED
    BY <2>1, CheckAllows
<1> QED
  BY <1>1, Invariance, PTL

\* Every request is counted once, under the code its client was sent and the module it
\* resolved to (probehttp.go:122-124, 139-150, 172-175).
THEOREM CountedOnce == Spec => []CountedOnceAsSent
<1>1. IInv => CountedOnceAsSent
  BY DEF IInv, Counts, Entries, CountedOnceAsSent
<1> QED
  BY <1>1, Invariance, PTL

\* The series of the counter are bounded by the configurations, whatever clients ask for
\* (probehttp.go:73-77).
THEOREM SeriesBounded == Spec => []NoSeriesForUnknownModules
<1>1. IInv => NoSeriesForUnknownModules
  <2> SUFFICES ASSUME IInv, NEW l \in Labels, NEW c \in Codes, requests[<<l, c>>] > 0
               PROVE  l \in {moduleUnresolved} \cup Names(Configs)
    BY DEF NoSeriesForUnknownModules
  <2>1. Entries(l, c) # {}
    BY FS_EmptySet DEF IInv, Counts
  <2> QED
    BY <2>1, LabelKnown DEF IInv, Entries
<1> QED
  BY <1>1, Invariance, PTL

\* A probe is over by the offset before the scraper gives up (probehttp.go:156-169).
THEOREM RoomToAnswer == Spec => []TimeoutLeavesRoom
<1>1. IInv => TimeoutLeavesRoom
  <2> SUFFICES ASSUME IInv, NEW r \in Requests, timeout[r] # 0
               PROVE  /\ timeout[r] \in 1..Timeout
                      /\ query[r].scrapeTimeout > TimeoutOffset =>
                            timeout[r] + TimeoutOffset <= query[r].scrapeTimeout
    BY DEF TimeoutLeavesRoom
  <2>1. timeout[r] = effectiveTimeout(query[r].scrapeTimeout)
    BY DEF IInv, Known, Knows
  <2> QED
    BY <2>1, ScrapeTimeoutType, EffectiveTimeout DEF IInv
<1> QED
  BY <1>1, Invariance, PTL
=============================================================================
