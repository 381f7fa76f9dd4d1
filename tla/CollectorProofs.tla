-------------------------- MODULE CollectorProofs --------------------------
(***************************************************************************)
(* Proofs about Collector: for every bound on the clock and on the number  *)
(* of key exchanges, whatever the server sends, the metrics of a scrape    *)
(* are ones the registry accepts and tell the same story as the result.    *)
(*                                                                         *)
(* The metrics are a concatenation of groups, parts of which are there     *)
(* only under a condition.  Two kinds of facts about them are put together *)
(* group by group: which metrics a group emits, and that the registry      *)
(* accepts it.  The rest is the invariant of Probe, and the order in which *)
(* the algorithms and the success of the key exchange get into the result. *)
(***************************************************************************)
EXTENDS Collector, ProbeProofs, SequenceTheorems, FiniteSetTheorems

\* The values of labels: fields of the result and the names that stand for the others.
Label == AllIdentifications \cup Phases \cup Reasons \cup Directions \cup
         {"none", "protoversion", "softwareversion", "comments", "kex", "hostkey", "cipher", "mac"}

Metric == [desc : DOMAIN Descs, value : Nat, labels : Seq(Label)]

\* What Collect sends for a result.
Metrics(r) ==
    TransportMetrics(r) \o VersionExchangeMetrics(r) \o AlgorithmMetrics(r)
      \o KeyExchangeMetrics(r) \o OutcomeMetrics(r)

Given(condition, M) == {m \in M : condition}

\* No metric of M has the descriptor and the labels of one of N.
Apart(M, N) == \A m \in M, n \in N : m.desc = n.desc => m.labels # n.labels

\* The sequence s sends the metrics M, with descriptors from D, and the registry
\* accepts them.
Sends(s, M, D) ==
    /\ s \in Seq(Metric)
    /\ M = {s[i] : i \in 1..Len(s)}
    /\ \A m \in M : m.desc \in D /\ Len(m.labels) = Descs[m.desc]
    /\ \A i, j \in 1..Len(s) :
         s[i].desc = s[j].desc /\ s[i].labels = s[j].labels => i = j

-----------------------------------------------------------------------------
(***************************************************************************)
(* Sequences of metrics.                                                   *)
(***************************************************************************)
\* A single metric with as many labels as its descriptor has.
LEMMA SendsOne ==
    ASSUME NEW m \in Metric, Len(m.labels) = Descs[m.desc]
    PROVE  Sends(<<m>>, {m}, {m.desc})
  BY DEF Sends

\* A part that is sent under a condition.
LEMMA SendsWhen ==
    ASSUME NEW c, NEW s, NEW M, NEW D, Sends(s, M, D)
    PROVE  Sends(When(c, s), Given(c, M), D)
  <1>1. CASE c
    <2>1. Given(c, M) = M /\ When(c, s) = s
      BY <1>1 DEF When, Given
    <2> QED  BY <2>1
  <1>2. CASE ~c
    <2>1. Given(c, M) = {} /\ When(c, s) = <<>>
      BY <1>2 DEF When, Given
    <2>2. Sends(<<>>, {}, D)
      BY DEF Sends
    <2> QED  BY <2>1, <2>2
  <1> QED  BY <1>1, <1>2

\* Two parts of which no metric occurs in both.
LEMMA SendsConcat ==
    ASSUME NEW s, NEW t, NEW M, NEW N, NEW D, NEW E,
           Sends(s, M, D), Sends(t, N, E), Apart(M, N)
    PROVE  Sends(s \o t, M \cup N, D \cup E)
  <1>0. /\ s \in Seq(Metric) /\ M = {s[i] : i \in 1..Len(s)}
        /\ t \in Seq(Metric) /\ N = {t[i] : i \in 1..Len(t)}
    BY DEF Sends
  <1>1. /\ s \o t \in Seq(Metric) /\ Len(s \o t) = Len(s) + Len(t)
        /\ Len(s) \in Nat /\ Len(t) \in Nat
    BY <1>0, ConcatProperties, LenProperties
  <1>2. \A i \in 1..(Len(s) + Len(t)) :
          \/ i \in 1..Len(s) /\ (s \o t)[i] = s[i]
          \/ i - Len(s) \in 1..Len(t) /\ (s \o t)[i] = t[i - Len(s)]
    BY <1>0, <1>1, ConcatProperties
  <1>3. M \cup N = {(s \o t)[i] : i \in 1..Len(s \o t)}
    <2>1. ASSUME NEW m \in M  PROVE \E i \in 1..Len(s \o t) : m = (s \o t)[i]
      <3>1. PICK i \in 1..Len(s) : m = s[i]
        BY <1>0
      <3>2. i \in 1..Len(s \o t) /\ m = (s \o t)[i]
        BY <3>1, <1>0, <1>1, ConcatProperties
      <3> QED  BY <3>2
    <2>2. ASSUME NEW m \in N  PROVE \E i \in 1..Len(s \o t) : m = (s \o t)[i]
      <3>1. PICK i \in 1..Len(t) : m = t[i]
        BY <1>0
      <3>2. Len(s) + i \in 1..Len(s \o t) /\ m = (s \o t)[Len(s) + i]
        BY <3>1, <1>0, <1>1, ConcatProperties
      <3> QED  BY <3>2
    <2>3. ASSUME NEW i \in 1..Len(s \o t)  PROVE (s \o t)[i] \in M \cup N
      BY <1>0, <1>1, <1>2
    <2> QED  BY <2>1, <2>2, <2>3
  <1>4. \A m \in M \cup N : m.desc \in D \cup E /\ Len(m.labels) = Descs[m.desc]
    BY DEF Sends
  <1>5. ASSUME NEW i \in 1..Len(s \o t), NEW j \in 1..Len(s \o t),
               (s \o t)[i].desc = (s \o t)[j].desc, (s \o t)[i].labels = (s \o t)[j].labels
        PROVE  i = j
    <2>1. CASE i \in 1..Len(s) /\ j \in 1..Len(s) /\ (s \o t)[i] = s[i] /\ (s \o t)[j] = s[j]
      BY <2>1, <1>5 DEF Sends
    <2>2. CASE /\ i - Len(s) \in 1..Len(t) /\ j - Len(s) \in 1..Len(t)
               /\ (s \o t)[i] = t[i - Len(s)] /\ (s \o t)[j] = t[j - Len(s)]
      <3>1. i - Len(s) = j - Len(s)
        BY <2>2, <1>5 DEF Sends
      <3> QED  BY <3>1, <1>1
    <2>3. CASE /\ i \in 1..Len(s) /\ j - Len(s) \in 1..Len(t)
               /\ (s \o t)[i] = s[i] /\ (s \o t)[j] = t[j - Len(s)]
      <3>1. s[i] \in M /\ t[j - Len(s)] \in N
        BY <2>3, <1>0
      <3> QED  BY <3>1, <2>3, <1>5 DEF Apart
    <2>4. CASE /\ j \in 1..Len(s) /\ i - Len(s) \in 1..Len(t)
               /\ (s \o t)[j] = s[j] /\ (s \o t)[i] = t[i - Len(s)]
      <3>1. s[j] \in M /\ t[i - Len(s)] \in N
        BY <2>4, <1>0
      <3> QED  BY <3>1, <2>4, <1>5 DEF Apart
    <2> QED  BY <1>1, <1>2, <2>1, <2>2, <2>3, <2>4
  <1> QED  BY <1>1, <1>3, <1>4, <1>5 DEF Sends

\* Two parts with different descriptors.
LEMMA SendsBoth ==
    ASSUME NEW s, NEW t, NEW M, NEW N, NEW D, NEW E,
           Sends(s, M, D), Sends(t, N, E), D \cap E = {}
    PROVE  Sends(s \o t, M \cup N, D \cup E)
  <1>1. Apart(M, N)
    BY DEF Apart, Sends
  <1> QED  BY <1>1, SendsConcat

\* A gauge has no labels.
LEMMA SendsGauge ==
    ASSUME NEW d \in DOMAIN Descs, Descs[d] = 0, NEW v \in Nat
    PROVE  Sends(Gauge(d, v), {mustNewConstMetric(d, v, <<>>)}, {d})
  <1> DEFINE m == mustNewConstMetric(d, v, <<>>)
  <1>1. m \in Metric /\ m.desc = d /\ Len(m.labels) = 0
    BY DEF mustNewConstMetric, Metric
  <1> HIDE DEF m
  <1>2. Sends(<<m>>, {m}, {d})
    BY <1>1, SendsOne
  <1> QED  BY <1>2 DEF Gauge, m

\* An info metric has its labels and the value 1.
LEMMA SendsInfo ==
    ASSUME NEW d \in DOMAIN Descs, NEW labels \in Seq(Label), Len(labels) = Descs[d]
    PROVE  Sends(Info(d, labels), {mustNewConstMetric(d, 1, labels)}, {d})
  <1> DEFINE m == mustNewConstMetric(d, 1, labels)
  <1>1. m \in Metric /\ m.desc = d /\ m.labels = labels
    BY DEF mustNewConstMetric, Metric
  <1> HIDE DEF m
  <1>2. Sends(<<m>>, {m}, {d})
    BY <1>1, SendsOne
  <1> QED  BY <1>2 DEF Info, m

\* The value of a Boolean gauge.
LEMMA BoolValue ==
    ASSUME NEW b \in BOOLEAN
    PROVE  boolToFloat64(b) \in Nat /\ (boolToFloat64(b) = 1 <=> b)
  BY DEF boolToFloat64

\* The fields of a result that become values, conditions and labels.
LEMMA ResultFields ==
    ASSUME NEW r \in Result
    PROVE  /\ r.DNSLookupDuration \in Nat /\ r.TCPConnectDuration \in Nat
           /\ r.VersionExchangeDuration \in Nat /\ r.KeyExchangeDuration \in Nat
           /\ r.Duration \in Nat /\ r.TCPMSS \in Nat
           /\ r.DNSLookup \in BOOLEAN /\ r.DNSLookupSuccess \in BOOLEAN
           /\ r.TCPConnectSuccess \in BOOLEAN /\ r.VersionExchangeSuccess \in BOOLEAN
           /\ r.KeyExchangeSuccess \in BOOLEAN /\ r.Algorithms \in BOOLEAN
           /\ r.ServerHostKeyVerifySuccess \in BOOLEAN /\ r.Success \in BOOLEAN
           /\ r.ServerIdentification \in Label
           /\ r.ErrorPhase \in Label /\ r.ErrorReason \in Label
           /\ r.MACs \in SUBSET Directions
  <1>1. /\ r.DNSLookupDuration \in Nat /\ r.TCPConnectDuration \in Nat
        /\ r.VersionExchangeDuration \in Nat /\ r.KeyExchangeDuration \in Nat
        /\ r.Duration \in Nat /\ r.TCPMSS \in MSSValues
        /\ r.ServerIdentification \in AllIdentifications \cup {"none"}
        /\ r.ErrorPhase \in Phases \cup {"none"} /\ r.ErrorReason \in Reasons \cup {"none"}
        /\ r.MACs \in SUBSET Directions
    BY DEF Result
  <1>2. /\ r.DNSLookup \in BOOLEAN /\ r.DNSLookupSuccess \in BOOLEAN
        /\ r.TCPConnectSuccess \in BOOLEAN /\ r.VersionExchangeSuccess \in BOOLEAN
        /\ r.KeyExchangeSuccess \in BOOLEAN /\ r.Algorithms \in BOOLEAN
        /\ r.ServerHostKeyVerifySuccess \in BOOLEAN /\ r.Success \in BOOLEAN
    BY DEF Result
  <1>3. r.TCPMSS \in Nat
    BY <1>1 DEF MSSValues
  <1>4. r.ServerIdentification \in Label /\ r.ErrorPhase \in Label /\ r.ErrorReason \in Label
    BY <1>1 DEF Label
  <1> QED  BY <1>1, <1>2, <1>3, <1>4

-----------------------------------------------------------------------------
(***************************************************************************)
(* The groups of metrics of Collect, each as the set of metrics it sends.  *)
(***************************************************************************)
gauge(desc, value) == {mustNewConstMetric(desc, value, <<>>)}
info(desc, labels) == {mustNewConstMetric(desc, 1, labels)}

TransportDescs == {"dns_lookup_success", "dns_lookup_duration", "tcp_connect_success",
                   "tcp_connect_duration", "tcp_mss"}
VersionExchangeDescs == {"server_identification_info", "server_identification_rfc_conformant",
                         "version_exchange_success", "version_exchange_duration"}
AlgorithmDescs == {"kex_algorithm_info", "server_host_key_algorithm_info",
                   "encryption_algorithm_info", "mac_algorithm_info"}
KeyExchangeDescs == {"server_host_key_verify_success", "key_exchange_success",
                     "key_exchange_duration"}
OutcomeDescs == {"error_info", "duration", "success"}

TransportSet(r) ==
    Given(r.DNSLookup,
          gauge("dns_lookup_success", boolToFloat64(r.DNSLookupSuccess))
          \cup Given(r.DNSLookupSuccess, gauge("dns_lookup_duration", r.DNSLookupDuration)))
    \cup gauge("tcp_connect_success", boolToFloat64(r.TCPConnectSuccess))
    \cup Given(r.TCPConnectSuccess,
               gauge("tcp_connect_duration", r.TCPConnectDuration)
               \cup Given(r.TCPMSS > 0, gauge("tcp_mss", r.TCPMSS)))

\* The metrics of the lookup and of the connection (collector.go:277-302).
LEMMA TransportSends ==
    ASSUME NEW r \in Result
    PROVE  Sends(TransportMetrics(r), TransportSet(r), TransportDescs)
  <1> DEFINE a == Gauge("dns_lookup_success", boolToFloat64(r.DNSLookupSuccess))
             A == gauge("dns_lookup_success", boolToFloat64(r.DNSLookupSuccess))
             b == Gauge("dns_lookup_duration", r.DNSLookupDuration)
             B == gauge("dns_lookup_duration", r.DNSLookupDuration)
             c == Gauge("tcp_connect_success", boolToFloat64(r.TCPConnectSuccess))
             C == gauge("tcp_connect_success", boolToFloat64(r.TCPConnectSuccess))
             d == Gauge("tcp_connect_duration", r.TCPConnectDuration)
             D == gauge("tcp_connect_duration", r.TCPConnectDuration)
             e == Gauge("tcp_mss", r.TCPMSS)
             E == gauge("tcp_mss", r.TCPMSS)
  <1>1. /\ Sends(a, A, {"dns_lookup_success"})
        /\ Sends(b, B, {"dns_lookup_duration"})
        /\ Sends(c, C, {"tcp_connect_success"})
        /\ Sends(d, D, {"tcp_connect_duration"})
        /\ Sends(e, E, {"tcp_mss"})
    BY ResultFields, BoolValue, SendsGauge DEF Descs, gauge
  <1>2. /\ TransportMetrics(r) = When(r.DNSLookup, a \o When(r.DNSLookupSuccess, b))
                                   \o c \o When(r.TCPConnectSuccess, d \o When(r.TCPMSS > 0, e))
        /\ TransportSet(r) = Given(r.DNSLookup, A \cup Given(r.DNSLookupSuccess, B))
                    \cup C \cup Given(r.TCPConnectSuccess, D \cup Given(r.TCPMSS > 0, E))
    BY DEF TransportMetrics, TransportSet
  <1> HIDE DEF a, A, b, B, c, C, d, D, e, E
  <1>3. Sends(When(r.DNSLookup, a \o When(r.DNSLookupSuccess, b)),
              Given(r.DNSLookup, A \cup Given(r.DNSLookupSuccess, B)),
              {"dns_lookup_success"} \cup {"dns_lookup_duration"})
    BY <1>1, SendsWhen, SendsBoth
  <1>4. Sends(When(r.TCPConnectSuccess, d \o When(r.TCPMSS > 0, e)),
              Given(r.TCPConnectSuccess, D \cup Given(r.TCPMSS > 0, E)),
              {"tcp_connect_duration"} \cup {"tcp_mss"})
    BY <1>1, SendsWhen, SendsBoth
  <1>5. Sends(When(r.DNSLookup, a \o When(r.DNSLookupSuccess, b)) \o c,
              Given(r.DNSLookup, A \cup Given(r.DNSLookupSuccess, B)) \cup C,
              {"dns_lookup_success"} \cup {"dns_lookup_duration"} \cup {"tcp_connect_success"})
    BY <1>1, <1>3, SendsBoth
  <1>6. Sends(When(r.DNSLookup, a \o When(r.DNSLookupSuccess, b)) \o c
                \o When(r.TCPConnectSuccess, d \o When(r.TCPMSS > 0, e)),
              Given(r.DNSLookup, A \cup Given(r.DNSLookupSuccess, B)) \cup C
                \cup Given(r.TCPConnectSuccess, D \cup Given(r.TCPMSS > 0, E)),
              {"dns_lookup_success"} \cup {"dns_lookup_duration"} \cup {"tcp_connect_success"}
                \cup ({"tcp_connect_duration"} \cup {"tcp_mss"}))
    BY <1>4, <1>5, SendsBoth
  <1>7. {"dns_lookup_success"} \cup {"dns_lookup_duration"} \cup {"tcp_connect_success"}
          \cup ({"tcp_connect_duration"} \cup {"tcp_mss"}) = TransportDescs
    BY DEF TransportDescs
  <1> QED  BY <1>2, <1>6, <1>7

IdentificationLabels(r) ==
    <<r.ServerIdentification, "protoversion", "softwareversion", "comments">>

VersionExchangeSet(r) ==
    Given(r.VersionExchangeSuccess,
          Given(r.ServerIdentification # "none",
                info("server_identification_info", IdentificationLabels(r)))
          \cup gauge("server_identification_rfc_conformant",
                     boolToFloat64(RFCConformant(r.ServerIdentification))))
    \cup gauge("version_exchange_success", boolToFloat64(r.VersionExchangeSuccess))
    \cup Given(r.VersionExchangeSuccess,
               gauge("version_exchange_duration", r.VersionExchangeDuration))

\* The metrics of the version exchange (collector.go:304-315).
LEMMA VersionExchangeSends ==
    ASSUME NEW r \in Result
    PROVE  Sends(VersionExchangeMetrics(r), VersionExchangeSet(r), VersionExchangeDescs)
  <1> DEFINE ok == r.VersionExchangeSuccess
             rfc == boolToFloat64(RFCConformant(r.ServerIdentification))
             a == Info("server_identification_info", IdentificationLabels(r))
             A == info("server_identification_info", IdentificationLabels(r))
             b == Gauge("server_identification_rfc_conformant", rfc)
             B == gauge("server_identification_rfc_conformant", rfc)
             c == Gauge("version_exchange_success", boolToFloat64(r.VersionExchangeSuccess))
             C == gauge("version_exchange_success", boolToFloat64(r.VersionExchangeSuccess))
             d == Gauge("version_exchange_duration", r.VersionExchangeDuration)
             D == gauge("version_exchange_duration", r.VersionExchangeDuration)
             known == r.ServerIdentification # "none"
  <1>1. IdentificationLabels(r) \in Seq(Label) /\ Len(IdentificationLabels(r)) = 4
    BY ResultFields DEF IdentificationLabels, Label
  <1>2. Sends(a, A, {"server_identification_info"})
    BY <1>1, SendsInfo DEF Descs, info
  <1>3. /\ Sends(b, B, {"server_identification_rfc_conformant"})
        /\ Sends(c, C, {"version_exchange_success"})
        /\ Sends(d, D, {"version_exchange_duration"})
    <2>1. rfc \in Nat
      BY DEF boolToFloat64
    <2> QED  BY <2>1, ResultFields, BoolValue, SendsGauge DEF Descs, gauge
  <1>4. /\ VersionExchangeMetrics(r) = When(ok, When(known, a) \o b) \o c \o When(ok, d)
        /\ VersionExchangeSet(r) = Given(ok, Given(known, A) \cup B) \cup C \cup Given(ok, D)
    BY DEF VersionExchangeMetrics, VersionExchangeSet, IdentificationLabels
  <1> HIDE DEF ok, known, a, A, b, B, c, C, d, D
  <1>5. Sends(When(ok, When(known, a) \o b), Given(ok, Given(known, A) \cup B),
              {"server_identification_info"} \cup {"server_identification_rfc_conformant"})
    BY <1>2, <1>3, SendsWhen, SendsBoth
  <1>6. Sends(When(ok, When(known, a) \o b) \o c, Given(ok, Given(known, A) \cup B) \cup C,
              {"server_identification_info"} \cup {"server_identification_rfc_conformant"}
                \cup {"version_exchange_success"})
    BY <1>3, <1>5, SendsBoth
  <1>7. Sends(When(ok, d), Given(ok, D), {"version_exchange_duration"})
    BY <1>3, SendsWhen
  <1>8. Sends(When(ok, When(known, a) \o b) \o c \o When(ok, d),
              Given(ok, Given(known, A) \cup B) \cup C \cup Given(ok, D),
              {"server_identification_info"} \cup {"server_identification_rfc_conformant"}
                \cup {"version_exchange_success"} \cup {"version_exchange_duration"})
    BY <1>6, <1>7, SendsBoth
  <1>9. {"server_identification_info"} \cup {"server_identification_rfc_conformant"}
          \cup {"version_exchange_success"} \cup {"version_exchange_duration"}
          = VersionExchangeDescs
    BY DEF VersionExchangeDescs
  <1> QED  BY <1>4, <1>8, <1>9

KeyExchangeSet(r) ==
    gauge("server_host_key_verify_success", boolToFloat64(r.ServerHostKeyVerifySuccess))
    \cup gauge("key_exchange_success", boolToFloat64(r.KeyExchangeSuccess))
    \cup Given(r.KeyExchangeSuccess, gauge("key_exchange_duration", r.KeyExchangeDuration))

\* The metrics of the key exchange (collector.go:339-344).
LEMMA KeyExchangeSends ==
    ASSUME NEW r \in Result
    PROVE  Sends(KeyExchangeMetrics(r), KeyExchangeSet(r), KeyExchangeDescs)
  <1> DEFINE ok == r.KeyExchangeSuccess
             v == boolToFloat64(r.ServerHostKeyVerifySuccess)
             a == Gauge("server_host_key_verify_success", v)
             A == gauge("server_host_key_verify_success", v)
             b == Gauge("key_exchange_success", boolToFloat64(r.KeyExchangeSuccess))
             B == gauge("key_exchange_success", boolToFloat64(r.KeyExchangeSuccess))
             c == Gauge("key_exchange_duration", r.KeyExchangeDuration)
             C == gauge("key_exchange_duration", r.KeyExchangeDuration)
  <1>1. /\ Sends(a, A, {"server_host_key_verify_success"})
        /\ Sends(b, B, {"key_exchange_success"})
        /\ Sends(c, C, {"key_exchange_duration"})
    BY ResultFields, BoolValue, SendsGauge DEF Descs, gauge
  <1>2. /\ KeyExchangeMetrics(r) = a \o b \o When(ok, c)
        /\ KeyExchangeSet(r) = A \cup B \cup Given(ok, C)
    BY DEF KeyExchangeMetrics, KeyExchangeSet, KeyExchangeTimed
  <1> HIDE DEF ok, a, A, b, B, c, C
  <1>3. Sends(a \o b, A \cup B, {"server_host_key_verify_success"} \cup {"key_exchange_success"})
    BY <1>1, SendsBoth
  <1>4. Sends(When(ok, c), Given(ok, C), {"key_exchange_duration"})
    BY <1>1, SendsWhen
  <1>5. Sends(a \o b \o When(ok, c), A \cup B \cup Given(ok, C),
              {"server_host_key_verify_success"} \cup {"key_exchange_success"}
                \cup {"key_exchange_duration"})
    BY <1>3, <1>4, SendsBoth
  <1>6. {"server_host_key_verify_success"} \cup {"key_exchange_success"}
          \cup {"key_exchange_duration"} = KeyExchangeDescs
    BY DEF KeyExchangeDescs
  <1> QED  BY <1>2, <1>5, <1>6

OutcomeSet(r) ==
    Given(r.ErrorPhase # "none", info("error_info", <<r.ErrorPhase, r.ErrorReason>>))
    \cup gauge("duration", r.Duration)
    \cup gauge("success", boolToFloat64(r.Success))

\* The metrics of the probe as a whole (collector.go:346-351).
LEMMA OutcomeSends ==
    ASSUME NEW r \in Result
    PROVE  Sends(OutcomeMetrics(r), OutcomeSet(r), OutcomeDescs)
  <1> DEFINE failed == r.ErrorPhase # "none"
             a == Info("error_info", <<r.ErrorPhase, r.ErrorReason>>)
             A == info("error_info", <<r.ErrorPhase, r.ErrorReason>>)
             b == Gauge("duration", r.Duration)
             B == gauge("duration", r.Duration)
             c == Gauge("success", boolToFloat64(r.Success))
             C == gauge("success", boolToFloat64(r.Success))
  <1>1. <<r.ErrorPhase, r.ErrorReason>> \in Seq(Label) /\ Len(<<r.ErrorPhase, r.ErrorReason>>) = 2
    BY ResultFields
  <1>2. Sends(a, A, {"error_info"})
    BY <1>1, SendsInfo DEF Descs, info
  <1>3. Sends(b, B, {"duration"}) /\ Sends(c, C, {"success"})
    BY ResultFields, BoolValue, SendsGauge DEF Descs, gauge
  <1>4. /\ OutcomeMetrics(r) = When(failed, a) \o b \o c
        /\ OutcomeSet(r) = Given(failed, A) \cup B \cup C
    BY DEF OutcomeMetrics, OutcomeSet
  <1> HIDE DEF failed, a, A, b, B, c, C
  <1>5. Sends(When(failed, a) \o b, Given(failed, A) \cup B, {"error_info"} \cup {"duration"})
    BY <1>2, <1>3, SendsWhen, SendsBoth
  <1>6. Sends(When(failed, a) \o b \o c, Given(failed, A) \cup B \cup C,
              {"error_info"} \cup {"duration"} \cup {"success"})
    BY <1>3, <1>5, SendsBoth
  <1>7. {"error_info"} \cup {"duration"} \cup {"success"} = OutcomeDescs
    BY DEF OutcomeDescs
  <1> QED  BY <1>4, <1>6, <1>7

CipherLabels(direction) == <<direction, "cipher">>
MACLabels(direction) == <<direction, "mac">>

AlgorithmSet(r) ==
    Given(r.KeyExchangeSuccess /\ r.Algorithms, info("kex_algorithm_info", <<"kex">>))
    \cup Given(r.Algorithms,
               info("server_host_key_algorithm_info", <<"hostkey">>)
               \cup info("encryption_algorithm_info", CipherLabels("client_to_server"))
               \cup info("encryption_algorithm_info", CipherLabels("server_to_client")))
    \cup Given("client_to_server" \in r.MACs,
               info("mac_algorithm_info", MACLabels("client_to_server")))
    \cup Given("server_to_client" \in r.MACs,
               info("mac_algorithm_info", MACLabels("server_to_client")))

\* The metrics of the negotiated algorithms, of which those of the two directions have
\* a descriptor in common and differ in a label (collector.go:317-337).
LEMMA AlgorithmSends ==
    ASSUME NEW r \in Result
    PROVE  Sends(AlgorithmMetrics(r), AlgorithmSet(r), AlgorithmDescs)
  <1> DEFINE kex == r.KeyExchangeSuccess /\ r.Algorithms
             alg == r.Algorithms
             cs == "client_to_server" \in r.MACs
             sc == "server_to_client" \in r.MACs
             a == Info("kex_algorithm_info", <<"kex">>)
             A == info("kex_algorithm_info", <<"kex">>)
             b == Info("server_host_key_algorithm_info", <<"hostkey">>)
             B == info("server_host_key_algorithm_info", <<"hostkey">>)
             c == Info("encryption_algorithm_info", CipherLabels("client_to_server"))
             C == info("encryption_algorithm_info", CipherLabels("client_to_server"))
             d == Info("encryption_algorithm_info", CipherLabels("server_to_client"))
             D == info("encryption_algorithm_info", CipherLabels("server_to_client"))
             e == Info("mac_algorithm_info", MACLabels("client_to_server"))
             E == info("mac_algorithm_info", MACLabels("client_to_server"))
             f == Info("mac_algorithm_info", MACLabels("server_to_client"))
             F == info("mac_algorithm_info", MACLabels("server_to_client"))
             encryption == {"server_host_key_algorithm_info"} \cup {"encryption_algorithm_info"}
                             \cup {"encryption_algorithm_info"}
  <1>1. /\ <<"kex">> \in Seq(Label) /\ Len(<<"kex">>) = 1
        /\ <<"hostkey">> \in Seq(Label) /\ Len(<<"hostkey">>) = 1
    BY DEF Label
  <1>2. \A x \in Directions : /\ CipherLabels(x) \in Seq(Label) /\ Len(CipherLabels(x)) = 2
                              /\ MACLabels(x) \in Seq(Label) /\ Len(MACLabels(x)) = 2
    BY DEF Label, CipherLabels, MACLabels
  <1>3. /\ Sends(a, A, {"kex_algorithm_info"})
        /\ Sends(b, B, {"server_host_key_algorithm_info"})
    BY <1>1, SendsInfo DEF Descs, info
  <1>4. /\ Sends(c, C, {"encryption_algorithm_info"})
        /\ Sends(d, D, {"encryption_algorithm_info"})
        /\ Sends(e, E, {"mac_algorithm_info"})
        /\ Sends(f, F, {"mac_algorithm_info"})
    BY <1>2, SendsInfo DEF Descs, info, Directions
  <1>5. /\ AlgorithmMetrics(r) = When(kex, a) \o When(alg, b \o c \o d)
                                   \o When(cs, e) \o When(sc, f)
        /\ AlgorithmSet(r) = Given(kex, A) \cup Given(alg, B \cup C \cup D)
                               \cup Given(cs, E) \cup Given(sc, F)
    BY DEF AlgorithmMetrics, MACMetric, AlgorithmSet, CipherLabels, MACLabels
  <1>6. Apart(C, D) /\ Apart(E, F)
    BY DEF Apart, info, mustNewConstMetric, CipherLabels, MACLabels
  <1> HIDE DEF kex, alg, cs, sc, a, A, b, B, c, C, d, D, e, E, f, F
  <1>7. Sends(b \o c, B \cup C,
              {"server_host_key_algorithm_info"} \cup {"encryption_algorithm_info"})
    BY <1>3, <1>4, SendsBoth
  <1>8. Apart(B \cup C, D)
    BY <1>3, <1>4, <1>6 DEF Apart, Sends
  <1>9. Sends(b \o c \o d, B \cup C \cup D, encryption)
    BY <1>4, <1>7, <1>8, SendsConcat
  <1>10. Sends(When(kex, a) \o When(alg, b \o c \o d),
               Given(kex, A) \cup Given(alg, B \cup C \cup D),
               {"kex_algorithm_info"} \cup encryption)
    BY <1>3, <1>9, SendsWhen, SendsBoth
  <1>11. Sends(When(cs, e), Given(cs, E), {"mac_algorithm_info"})
    BY <1>4, SendsWhen
  <1>12. Sends(When(sc, f), Given(sc, F), {"mac_algorithm_info"})
    BY <1>4, SendsWhen
  <1> DEFINE x == When(kex, a) \o When(alg, b \o c \o d)
             X == Given(kex, A) \cup Given(alg, B \cup C \cup D)
  <1>13. Sends(x \o When(cs, e), X \cup Given(cs, E),
               {"kex_algorithm_info"} \cup encryption \cup {"mac_algorithm_info"})
    BY <1>10, <1>11, SendsBoth
  <1>14. Apart(X \cup Given(cs, E), Given(sc, F))
    <2>1. \A m \in X : m.desc \in {"kex_algorithm_info"} \cup encryption
      BY <1>10 DEF Sends
    <2>2. \A n \in Given(sc, F) : n.desc = "mac_algorithm_info" /\ n \in F
      BY <1>12 DEF Sends, Given
    <2>3. \A m \in Given(cs, E) : m \in E
      BY DEF Given
    <2> HIDE DEF X
    <2> QED  BY <2>1, <2>2, <2>3, <1>6 DEF Apart
  <1>15. Sends(x \o When(cs, e) \o When(sc, f), X \cup Given(cs, E) \cup Given(sc, F),
               {"kex_algorithm_info"} \cup encryption \cup {"mac_algorithm_info"}
                 \cup {"mac_algorithm_info"})
    BY <1>12, <1>13, <1>14, SendsConcat
  <1>16. {"kex_algorithm_info"} \cup encryption \cup {"mac_algorithm_info"}
           \cup {"mac_algorithm_info"} = AlgorithmDescs
    BY DEF AlgorithmDescs
  <1> QED  BY <1>5, <1>15, <1>16

-----------------------------------------------------------------------------
(***************************************************************************)
(* The metrics of a scrape.                                                *)
(***************************************************************************)
AllSet(r) == TransportSet(r) \cup VersionExchangeSet(r) \cup AlgorithmSet(r)
               \cup KeyExchangeSet(r) \cup OutcomeSet(r)

\* All metrics of a result together.
LEMMA MetricsSend ==
    ASSUME NEW r \in Result
    PROVE  Sends(Metrics(r), AllSet(r), DOMAIN Descs)
  <1> DEFINE D2 == TransportDescs \cup VersionExchangeDescs
             D3 == D2 \cup AlgorithmDescs
             D4 == D3 \cup KeyExchangeDescs
             D5 == D4 \cup OutcomeDescs
             s2 == TransportMetrics(r) \o VersionExchangeMetrics(r)
             s3 == s2 \o AlgorithmMetrics(r)
             s4 == s3 \o KeyExchangeMetrics(r)
             S2 == TransportSet(r) \cup VersionExchangeSet(r)
             S3 == S2 \cup AlgorithmSet(r)
             S4 == S3 \cup KeyExchangeSet(r)
  <1>0. /\ TransportDescs \cap VersionExchangeDescs = {}
        /\ D2 \cap AlgorithmDescs = {}
        /\ D3 \cap KeyExchangeDescs = {}
        /\ D4 \cap OutcomeDescs = {}
    BY DEF TransportDescs, VersionExchangeDescs, AlgorithmDescs, KeyExchangeDescs, OutcomeDescs
  <1>1. Sends(s2, S2, D2)
    BY <1>0, TransportSends, VersionExchangeSends, SendsBoth
  <1>2. Sends(s3, S3, D3)
    BY <1>0, <1>1, AlgorithmSends, SendsBoth
  <1>3. Sends(s4, S4, D4)
    BY <1>0, <1>2, KeyExchangeSends, SendsBoth
  <1>4. Sends(s4 \o OutcomeMetrics(r), S4 \cup OutcomeSet(r), D5)
    BY <1>0, <1>3, OutcomeSends, SendsBoth
  <1>5. D5 = DOMAIN Descs
    BY DEF Descs, TransportDescs, VersionExchangeDescs, AlgorithmDescs,
           KeyExchangeDescs, OutcomeDescs
  <1>6. Metrics(r) = s4 \o OutcomeMetrics(r) /\ AllSet(r) = S4 \cup OutcomeSet(r)
    BY DEF Metrics, AllSet
  <1> QED  BY <1>4, <1>5, <1>6

-----------------------------------------------------------------------------
(***************************************************************************)
(* The invariant.                                                          *)
(***************************************************************************)
\* TransportReadyCallback sets the algorithms together with the error that RecordHandshake
\* takes for the success of the key exchange.
AlgorithmInv ==
    /\ result.Algorithms \/ result.MACs # {} => handshakeErr = "errAbort"
    /\ pc \in {"hostkey", "return", "done"} /\ handshakeErr = "errAbort" =>
         result.KeyExchangeSuccess

\* What was collected are the metrics of the result, which does not change any more.
CollectedInv == metrics # <<>> => pc = "done" /\ metrics = Metrics(result)

CInv == IInv /\ AlgorithmInv /\ CollectedInv

\* Once Run has returned, a step of the probe leaves its position and its result alone.
LEMMA ReturnedForGood ==
    ASSUME [Next]_vars, pc = "done"
    PROVE  UNCHANGED <<pc, result>>
  <1> USE DEF clockVars, dialVars, connVars, keyVars
  <1>1. CASE Run
    BY <1>1 DEF Run, StartDial, RecordDialError, RecordConnected, StartHandshake,
           RecordHandshake, RecordHostKey, Return
  <1>2. CASE Dialer
    BY <1>2 DEF Dialer, LookupSucceeds, ControlContext, DialSucceeds, DialFails
  <1>3. CASE Library
    BY <1>3 DEF Library, ReadIdentification, AgreeAlgorithms, ReadKexReply, ReadNewKeys,
           LibraryStep, NegotiationFails, PeerFails, UseOfClosedConn, HandshakeFails,
           VerifyFirstKey, VerifyRekey, HostKeyCallback, TransportReadyCallback
  <1>4. CASE Context \/ Tick \/ Done \/ UNCHANGED vars
    BY <1>4 DEF Context, Deadline, Cancel, ContextEnds, AfterFuncStarts, AfterFuncCloses,
           Tick, Done, vars
  <1> QED  BY <1>1, <1>2, <1>3, <1>4 DEF Next

\* No step of the probe separates the algorithms from the success of the key exchange.
LEMMA AlgorithmStep ==
    ASSUME IInv, AlgorithmInv, [Next]_vars
    PROVE  AlgorithmInv'
  <1> USE DEF clockVars, dialVars, connVars, keyVars
  <1>0. result \in Result
    BY DEF IInv, TypeOK
  <1>1. CASE UNCHANGED <<pc, handshakeErr, result>>
    BY <1>1 DEF AlgorithmInv
  <1>2. CASE StartDial \/ StartHandshake
    BY <1>2 DEF AlgorithmInv, StartDial, StartHandshake
  <1>3. CASE RecordDialError
    <2>1. handshakeErr = "none" /\ handshakeErr' = "none" /\ result = ZeroResult
      BY <1>3 DEF RecordDialError, IInv, OutcomeInv, BeforeRecord
    <2>2. result'.Algorithms = result.Algorithms /\ result'.MACs = result.MACs
      BY <1>0, <1>3 DEF RecordDialError, WithDNSLookup, Result
    <2> QED  BY <2>1, <2>2 DEF AlgorithmInv
  <1>4. ASSUME NEW mss \in MSSValues, RecordConnected(mss)  PROVE AlgorithmInv'
    <2>1. handshakeErr' = handshakeErr /\ pc' = "connected"
      BY <1>4 DEF RecordConnected
    <2>2. result'.Algorithms = result.Algorithms /\ result'.MACs = result.MACs
      BY <1>0, <1>4 DEF RecordConnected, WithDNSLookup, Result
    <2> QED  BY <2>1, <2>2 DEF AlgorithmInv
  <1>5. CASE RecordHandshake
    <2>1. handshakeErr' = handshakeErr
      BY <1>5 DEF RecordHandshake
    <2>2. result'.Algorithms = result.Algorithms /\ result'.MACs = result.MACs
      BY <1>0, <1>5 DEF RecordHandshake, WithVersionExchange, Result
    <2>3. handshakeErr = "errAbort" => result'.KeyExchangeSuccess
      BY <1>0, <1>5 DEF RecordHandshake, WithVersionExchange, Result
    <2> QED  BY <2>1, <2>2, <2>3 DEF AlgorithmInv
  <1>6. CASE RecordHostKey
    <2>1. handshakeErr' = handshakeErr /\ pc = "hostkey"
      BY <1>6 DEF RecordHostKey
    <2>2. /\ result'.Algorithms = result.Algorithms /\ result'.MACs = result.MACs
          /\ result'.KeyExchangeSuccess = result.KeyExchangeSuccess
      BY <1>0, <1>6 DEF RecordHostKey, WithHostKey, Result
    <2> QED  BY <2>1, <2>2 DEF AlgorithmInv
  <1>7. CASE Return
    <2>1. handshakeErr' = handshakeErr /\ pc = "return"
      BY <1>7 DEF Return
    <2>2. /\ result'.Algorithms = result.Algorithms /\ result'.MACs = result.MACs
          /\ result'.KeyExchangeSuccess = result.KeyExchangeSuccess
      BY <1>0, <1>7 DEF Return, Result
    <2> QED  BY <2>1, <2>2 DEF AlgorithmInv
  <1>8. CASE Dialer
    BY <1>8 DEF Dialer, LookupSucceeds, ControlContext, DialSucceeds, DialFails, AlgorithmInv
  <1>9. ASSUME NEW err, HandshakeFails(err), pc \in InNewClientConn  PROVE AlgorithmInv'
    <2>1. handshakeErr = "none"
      BY <1>9 DEF IInv, OutcomeInv
    <2> QED  BY <2>1, <1>9 DEF HandshakeFails, AlgorithmInv
  <1>10. ASSUME NEW macs \in SUBSET Directions, TransportReadyCallback(macs)  PROVE AlgorithmInv'
    BY <1>10 DEF TransportReadyCallback, AlgorithmInv, errAbort
  <1>11. ASSUME NEW id, ReadIdentification(id)  PROVE AlgorithmInv'
    BY <1>11 DEF ReadIdentification, AlgorithmInv
  <1>12. CASE AgreeAlgorithms \/ ReadKexReply \/ ReadNewKeys
    BY <1>12 DEF AgreeAlgorithms, ReadKexReply, ReadNewKeys, LibraryStep, AlgorithmInv
  <1>13. ASSUME NEW v, VerifyFirstKey(v) \/ VerifyRekey(v)  PROVE AlgorithmInv'
    BY <1>13 DEF VerifyFirstKey, VerifyRekey, HostKeyCallback, AlgorithmInv
  <1>14. CASE Run
    BY <1>14, <1>2, <1>3, <1>4, <1>5, <1>6, <1>7 DEF Run
  <1>15. CASE Library
    BY <1>15, <1>9, <1>10, <1>11, <1>12, <1>13
       DEF Library, NegotiationFails, PeerFails, UseOfClosedConn, InNewClientConn
  <1>16. CASE Context \/ Tick \/ Done \/ UNCHANGED vars
    BY <1>16, <1>1 DEF Context, Deadline, Cancel, ContextEnds, AfterFuncStarts, AfterFuncCloses,
           Tick, Done, vars
  <1> QED  BY <1>8, <1>14, <1>15, <1>16 DEF Next

\* The invariant holds from the start of the probe to the end of the scrape.
LEMMA CollectorInvHolds == CollectorSpec => []CInv
  <1>1. CollectorInit => CInv
    <2> SUFFICES ASSUME CollectorInit  PROVE CInv
      OBVIOUS
    <2>1. IInv /\ CollectedInv
      BY InitInv DEF CollectorInit, CollectedInv
    <2>2. AlgorithmInv
      BY DEF CollectorInit, Init, ZeroResult, AlgorithmInv
    <2> QED  BY <2>1, <2>2 DEF CInv
  <1>2. CInv /\ [CollectorNext]_collectorVars => CInv'
    <2> SUFFICES ASSUME CInv, [CollectorNext]_collectorVars  PROVE CInv'
      OBVIOUS
    <2>1. [Next]_vars
      BY DEF CollectorNext, Collect, collectorVars
    <2>2. IInv' /\ AlgorithmInv'
      BY <2>1, NextInv, AlgorithmStep DEF CInv
    <2>3. CASE Collect
      <3>1. pc = "done" /\ pc' = pc /\ result' = result /\ metrics' = Metrics(result)
        BY <2>3 DEF Collect, Metrics, vars
      <3>2. metrics' = Metrics(result)'
        BY <3>1 DEF Metrics, TransportMetrics, VersionExchangeMetrics, AlgorithmMetrics,
               KeyExchangeMetrics, OutcomeMetrics, KeyExchangeTimed
      <3> QED  BY <3>1, <3>2, <2>2 DEF CInv, CollectedInv
    <2>4. CASE UNCHANGED metrics /\ metrics = <<>>
      BY <2>4, <2>2 DEF CInv, CollectedInv
    <2>5. CASE UNCHANGED metrics /\ metrics # <<>>
      <3>1. pc = "done" /\ metrics = Metrics(result)
        BY <2>5 DEF CInv, CollectedInv
      <3>2. pc' = pc /\ result' = result
        BY <2>1, <3>1, ReturnedForGood
      <3>3. Metrics(result)' = Metrics(result)
        BY <3>2 DEF Metrics, TransportMetrics, VersionExchangeMetrics, AlgorithmMetrics,
               KeyExchangeMetrics, OutcomeMetrics, KeyExchangeTimed
      <3> QED  BY <2>2, <2>5, <3>1, <3>2, <3>3 DEF CInv, CollectedInv
    <2> QED  BY <2>3, <2>4, <2>5 DEF CollectorNext, collectorVars
  <1> QED  BY <1>1, <1>2, PTL DEF CollectorSpec

-----------------------------------------------------------------------------
(***************************************************************************)
(* The theorems.                                                           *)
(***************************************************************************)
\* What was sent on the channel, once something was.
LEMMA EmittedMetrics ==
    ASSUME CInv, metrics # <<>>
    PROVE  /\ result \in Result /\ pc = "done"
           /\ Sends(metrics, AllSet(result), DOMAIN Descs)
           /\ Emitted = AllSet(result)
  <1>1. result \in Result
    BY DEF CInv, IInv, TypeOK
  <1>2. pc = "done" /\ metrics = Metrics(result)
    BY DEF CInv, CollectedInv
  <1>3. Sends(metrics, AllSet(result), DOMAIN Descs)
    BY <1>1, <1>2, MetricsSend
  <1>4. DOMAIN metrics = 1..Len(metrics)
    BY <1>3, LenProperties DEF Sends
  <1> QED  BY <1>1, <1>2, <1>3, <1>4 DEF Emitted, Sends

\* Nothing was sent before.
LEMMA NothingEmitted ==
    ASSUME metrics = <<>>
    PROVE  Emitted = {}
  BY DEF Emitted

\* Gathering succeeds for every result that Run can return: each metric has a value for
\* each label of its descriptor, and no two share descriptor and labels
\* (collector.go:34-36, 257-352, probehttp.go:119-123).
THEOREM MetricsGather == CollectorSpec => []GatherSucceeds
  <1>1. CInv => GatherSucceeds
    <2> SUFFICES ASSUME CInv  PROVE GatherSucceeds
      OBVIOUS
    <2>1. CASE metrics = <<>>
      <3>1. {<<m.desc, m.labels>> : m \in Emitted} = {} /\ Len(metrics) = 0
        BY <2>1, NothingEmitted
      <3>2. Cardinality({<<m.desc, m.labels>> : m \in Emitted}) = Len(metrics)
        BY <3>1, FS_EmptySet
      <3> QED  BY <3>2, <2>1, NothingEmitted DEF GatherSucceeds
    <2>2. CASE metrics # <<>>
      <3> DEFINE id(i) == <<metrics[i].desc, metrics[i].labels>>
                 S == {<<m.desc, m.labels>> : m \in Emitted}
                 f == [i \in 1..Len(metrics) |-> id(i)]
      <3>1. Sends(metrics, AllSet(result), DOMAIN Descs) /\ Emitted = AllSet(result)
        BY <2>2, EmittedMetrics
      <3>2. Emitted = {metrics[i] : i \in 1..Len(metrics)} /\ Len(metrics) \in Nat
        BY <3>1, LenProperties DEF Sends
      <3>3. S = {id(i) : i \in 1..Len(metrics)}
        BY <3>2
      <3>4. \A i, j \in 1..Len(metrics) : id(i) = id(j) => i = j
        BY <3>1 DEF Sends
      <3>5. f \in Bijection(1..Len(metrics), S)
        <4>1. f \in [1..Len(metrics) -> S]
          BY <3>3
        <4>2. \A i, j \in 1..Len(metrics) : f[i] = f[j] => i = j
          BY <3>4
        <4>3. \A x \in S : \E i \in 1..Len(metrics) : f[i] = x
          BY <3>3
        <4> HIDE DEF S, f, id
        <4> QED  BY <4>1, <4>2, <4>3 DEF Bijection, Injection, Surjection, IsInjective
      <3>6. IsFiniteSet(1..Len(metrics)) /\ Cardinality(1..Len(metrics)) = Len(metrics)
        <4>1. 1 \in Int /\ Len(metrics) \in Int
          BY <3>2
        <4>2. /\ IsFiniteSet(1..Len(metrics))
              /\ Cardinality(1..Len(metrics)) =
                   IF 1 > Len(metrics) THEN 0 ELSE Len(metrics) - 1 + 1
          BY <4>1, FS_Interval, Zenon
        <4> QED  BY <3>2, <4>2
      <3>7. Cardinality(S) = Len(metrics)
        BY <3>5, <3>6, FS_Bijection DEF ExistsBijection
      <3>8. \A m \in Emitted : Len(m.labels) = Descs[m.desc]
        BY <3>1 DEF Sends
      <3> QED  BY <3>7, <3>8 DEF GatherSucceeds
    <2> QED  BY <2>1, <2>2
  <1> QED  BY <1>1, CollectorInvHolds, PTL

WithDesc(r, d) == {m \in AllSet(r) : m.desc = d}

\* The metrics of the phases and of the outcome: under which condition each is sent, and
\* with which value.
LEMMA SentUnderCondition ==
    ASSUME NEW r \in Result
    PROVE  /\ WithDesc(r, "dns_lookup_success") =
                Given(r.DNSLookup,
                      gauge("dns_lookup_success", boolToFloat64(r.DNSLookupSuccess)))
           /\ WithDesc(r, "dns_lookup_duration") =
                Given(r.DNSLookup /\ r.DNSLookupSuccess,
                      gauge("dns_lookup_duration", r.DNSLookupDuration))
           /\ WithDesc(r, "tcp_connect_success") =
                gauge("tcp_connect_success", boolToFloat64(r.TCPConnectSuccess))
           /\ WithDesc(r, "tcp_connect_duration") =
                Given(r.TCPConnectSuccess, gauge("tcp_connect_duration", r.TCPConnectDuration))
           /\ WithDesc(r, "version_exchange_success") =
                gauge("version_exchange_success", boolToFloat64(r.VersionExchangeSuccess))
           /\ WithDesc(r, "version_exchange_duration") =
                Given(r.VersionExchangeSuccess,
                      gauge("version_exchange_duration", r.VersionExchangeDuration))
           /\ WithDesc(r, "key_exchange_success") =
                gauge("key_exchange_success", boolToFloat64(r.KeyExchangeSuccess))
           /\ WithDesc(r, "key_exchange_duration") =
                Given(r.KeyExchangeSuccess, gauge("key_exchange_duration", r.KeyExchangeDuration))
           /\ WithDesc(r, "success") = gauge("success", boolToFloat64(r.Success))
           /\ WithDesc(r, "error_info") =
                Given(r.ErrorPhase # "none",
                      info("error_info", <<r.ErrorPhase, r.ErrorReason>>))
  <1> USE DEF WithDesc, AllSet, TransportSet, VersionExchangeSet, AlgorithmSet,
              KeyExchangeSet, OutcomeSet, Given, gauge, info, mustNewConstMetric
  <1>1. WithDesc(r, "dns_lookup_success") =
            Given(r.DNSLookup,
                  gauge("dns_lookup_success", boolToFloat64(r.DNSLookupSuccess)))
    OBVIOUS
  <1>2. WithDesc(r, "dns_lookup_duration") =
            Given(r.DNSLookup /\ r.DNSLookupSuccess,
                  gauge("dns_lookup_duration", r.DNSLookupDuration))
    OBVIOUS
  <1>3. WithDesc(r, "tcp_connect_success") =
            gauge("tcp_connect_success", boolToFloat64(r.TCPConnectSuccess))
    OBVIOUS
  <1>4. WithDesc(r, "tcp_connect_duration") =
            Given(r.TCPConnectSuccess, gauge("tcp_connect_duration", r.TCPConnectDuration))
    OBVIOUS
  <1>5. WithDesc(r, "version_exchange_success") =
            gauge("version_exchange_success", boolToFloat64(r.VersionExchangeSuccess))
    OBVIOUS
  <1>6. WithDesc(r, "version_exchange_duration") =
            Given(r.VersionExchangeSuccess,
                  gauge("version_exchange_duration", r.VersionExchangeDuration))
    OBVIOUS
  <1>7. WithDesc(r, "key_exchange_success") =
            gauge("key_exchange_success", boolToFloat64(r.KeyExchangeSuccess))
    OBVIOUS
  <1>8. WithDesc(r, "key_exchange_duration") =
            Given(r.KeyExchangeSuccess, gauge("key_exchange_duration", r.KeyExchangeDuration))
    OBVIOUS
  <1>9. WithDesc(r, "success") = gauge("success", boolToFloat64(r.Success))
    OBVIOUS
  <1>10. WithDesc(r, "error_info") =
            Given(r.ErrorPhase # "none",
                  info("error_info", <<r.ErrorPhase, r.ErrorReason>>))
    OBVIOUS
  <1> HIDE DEF WithDesc, AllSet, TransportSet, VersionExchangeSet, AlgorithmSet,
               KeyExchangeSet, OutcomeSet, Given, gauge, info, mustNewConstMetric
  <1> QED  BY <1>1, <1>2, <1>3, <1>4, <1>5, <1>6, <1>7, <1>8, <1>9, <1>10

\* Whether a metric is sent, and whether as 1, in terms of the result.
LEMMA SentMetrics ==
    ASSUME NEW r \in Result, Emitted = AllSet(r)
    PROVE  /\ Reports("dns_lookup_success", 1) <=> r.DNSLookup /\ r.DNSLookupSuccess
           /\ Has("dns_lookup_duration") <=> r.DNSLookup /\ r.DNSLookupSuccess
           /\ Reports("tcp_connect_success", 1) <=> r.TCPConnectSuccess
           /\ Has("tcp_connect_duration") <=> r.TCPConnectSuccess
           /\ Reports("version_exchange_success", 1) <=> r.VersionExchangeSuccess
           /\ Has("version_exchange_duration") <=> r.VersionExchangeSuccess
           /\ Reports("key_exchange_success", 1) <=> r.KeyExchangeSuccess
           /\ Has("key_exchange_duration") <=> r.KeyExchangeSuccess
           /\ Reports("success", 1) <=> r.Success
           /\ Has("error_info") <=> r.ErrorPhase # "none"
  <1>1. \A d : Has(d) <=> WithDesc(r, d) # {}
    BY DEF Has, WithDesc
  <1>2. Has("error_info") <=> r.ErrorPhase # "none"
    BY <1>1, SentUnderCondition DEF Given, info
  <1>3. ASSUME NEW d, NEW v, WithDesc(r, d) = gauge(d, v)
        PROVE  Reports(d, 1) <=> v = 1
    <2>1. \A m : m \in Emitted /\ m.desc = d <=> m = mustNewConstMetric(d, v, <<>>)
      BY <1>3 DEF WithDesc, gauge
    <2>2. mustNewConstMetric(d, v, <<>>).value = v
      BY DEF mustNewConstMetric
    <2> QED  BY <2>1, <2>2 DEF Reports
  <1>4. Reports("tcp_connect_success", 1) <=> r.TCPConnectSuccess
    <2>1. WithDesc(r, "tcp_connect_success") =
            gauge("tcp_connect_success", boolToFloat64(r.TCPConnectSuccess))
      BY SentUnderCondition
    <2> QED  BY <2>1, <1>3 DEF boolToFloat64
  <1>5. Reports("version_exchange_success", 1) <=> r.VersionExchangeSuccess
    <2>1. WithDesc(r, "version_exchange_success") =
            gauge("version_exchange_success", boolToFloat64(r.VersionExchangeSuccess))
      BY SentUnderCondition
    <2> QED  BY <2>1, <1>3 DEF boolToFloat64
  <1>6. Reports("key_exchange_success", 1) <=> r.KeyExchangeSuccess
    <2>1. WithDesc(r, "key_exchange_success") =
            gauge("key_exchange_success", boolToFloat64(r.KeyExchangeSuccess))
      BY SentUnderCondition
    <2> QED  BY <2>1, <1>3 DEF boolToFloat64
  <1>7. Reports("success", 1) <=> r.Success
    <2>1. WithDesc(r, "success") = gauge("success", boolToFloat64(r.Success))
      BY SentUnderCondition
    <2> QED  BY <2>1, <1>3 DEF boolToFloat64
  <1>8. Reports("dns_lookup_success", 1) <=> r.DNSLookup /\ r.DNSLookupSuccess
    <2>1. CASE r.DNSLookup
      <3>1. WithDesc(r, "dns_lookup_success") =
              gauge("dns_lookup_success", boolToFloat64(r.DNSLookupSuccess))
        BY <2>1, SentUnderCondition DEF Given
      <3> QED  BY <2>1, <3>1, <1>3 DEF boolToFloat64
    <2>2. CASE ~r.DNSLookup
      <3>1. WithDesc(r, "dns_lookup_success") = {}
        BY <2>2, SentUnderCondition DEF Given
      <3> QED  BY <2>2, <3>1 DEF Reports, WithDesc
    <2> QED  BY <2>1, <2>2
  <1>9. /\ Has("dns_lookup_duration") <=> r.DNSLookup /\ r.DNSLookupSuccess
        /\ Has("tcp_connect_duration") <=> r.TCPConnectSuccess
        /\ Has("version_exchange_duration") <=> r.VersionExchangeSuccess
        /\ Has("key_exchange_duration") <=> r.KeyExchangeSuccess
    BY <1>1, SentUnderCondition DEF Given, gauge
  <1> QED  BY <1>2, <1>3, <1>4, <1>5, <1>6, <1>7, <1>8, <1>9

\* A phase has a duration exactly if its success gauge reads 1 (collector.go:289-302,
\* 312-315, 341-344).
THEOREM DurationsOfSuccesses == CollectorSpec => []DurationIffSuccess
  <1>1. CInv => DurationIffSuccess
    <2> SUFFICES ASSUME CInv  PROVE DurationIffSuccess
      OBVIOUS
    <2>1. CASE metrics = <<>>
      BY <2>1, NothingEmitted DEF DurationIffSuccess, Reports, Has
    <2>2. CASE metrics # <<>>
      <3>1. result \in Result /\ Emitted = AllSet(result)
        BY <2>2, EmittedMetrics
      <3> QED  BY <3>1, SentMetrics DEF DurationIffSuccess
    <2> QED  BY <2>1, <2>2
  <1> QED  BY <1>1, CollectorInvHolds, PTL

\* Algorithms are reported only together with a completed key exchange, which rests on
\* the order of Run's callbacks (collector.go:317-337, probe.go:324-331, 364-371).
THEOREM AlgorithmsAfterKeyExchange == CollectorSpec => []AlgorithmsOnlyWithKeyExchange
  <1>1. CInv => AlgorithmsOnlyWithKeyExchange
    <2> SUFFICES ASSUME CInv, NEW m \in Emitted, m.desc \in AlgorithmDescs
                 PROVE  Reports("key_exchange_success", 1)
      BY DEF AlgorithmsOnlyWithKeyExchange, AlgorithmDescs
    <2>1. metrics # <<>>
      BY NothingEmitted
    <2>2. result \in Result /\ Emitted = AllSet(result) /\ pc = "done"
      BY <2>1, EmittedMetrics
    <2>3. m \in AlgorithmSet(result)
      BY <2>2 DEF AllSet, TransportSet, VersionExchangeSet, KeyExchangeSet, OutcomeSet,
             Given, gauge, info, mustNewConstMetric, AlgorithmDescs
    <2>4. result.Algorithms \/ result.MACs # {}
      BY <2>3 DEF AlgorithmSet, Given
    <2>5. result.KeyExchangeSuccess
      BY <2>2, <2>4 DEF CInv, AlgorithmInv
    <2> QED  BY <2>2, <2>5, SentMetrics
  <1> QED  BY <1>1, CollectorInvHolds, PTL

\* A scrape reports success or an error, never both and never neither
\* (collector.go:346-351, probe.go:384-394).
THEOREM SuccessXorError == CollectorSpec => []SuccessOrErrorInfo
  <1>1. CInv => SuccessOrErrorInfo
    <2> SUFFICES ASSUME CInv, metrics # <<>>
                 PROVE  Reports("success", 1) <=> ~Has("error_info")
      BY DEF SuccessOrErrorInfo
    <2>1. result \in Result /\ Emitted = AllSet(result) /\ pc = "done"
      BY EmittedMetrics
    <2>2. result.Success <=> result.ErrorPhase = "none"
      BY <2>1 DEF CInv, IInv, ReportInv, ExplainedInv, Returning
    <2> QED  BY <2>1, <2>2, SentMetrics
  <1> QED  BY <1>1, CollectorInvHolds, PTL
=============================================================================
