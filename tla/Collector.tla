----------------------------- MODULE Collector -----------------------------
(***************************************************************************)
(* SSHCollector.Collect (internal/collector/collector.go): run one probe   *)
(* and turn its result into the metrics of one scrape.  The collector is   *)
(* registered on a registry of its own, which fails a scrape that sends    *)
(* the same metric twice.  The registry is not a pedantic one: it does not *)
(* compare what Collect sends with what Describe announced.                *)
(***************************************************************************)
EXTENDS Probe, Sequences, FiniteSets

VARIABLE metrics    \* what was sent on the channel, in order

collectorVars == <<vars, metrics>>

-----------------------------------------------------------------------------
\* The descriptors, with the number of their variable labels.
Descs ==
    [dns_lookup_success |-> 0, dns_lookup_duration |-> 0, tcp_connect_success |-> 0,
     tcp_connect_duration |-> 0, tcp_mss |-> 0, server_identification_info |-> 4,
     server_identification_rfc_conformant |-> 0, version_exchange_success |-> 0,
     version_exchange_duration |-> 0, kex_algorithm_info |-> 1,
     server_host_key_algorithm_info |-> 1, encryption_algorithm_info |-> 2,
     mac_algorithm_info |-> 2, server_host_key_verify_success |-> 0,
     key_exchange_success |-> 0, key_exchange_duration |-> 0, error_info |-> 2,
     duration |-> 0, success |-> 0]

boolToFloat64(b) == IF b THEN 1 ELSE 0

mustNewConstMetric(desc, value, labels) ==
    [desc |-> desc, value |-> value, labels |-> labels]

Gauge(desc, value) == <<mustNewConstMetric(desc, value, <<>>)>>
Info(desc, labels) == <<mustNewConstMetric(desc, 1, labels)>>
When(condition, ms) == IF condition THEN ms ELSE <<>>

\* ServerIdentification.RFCConformant, FALSE in the zero value.
RFCConformant(id) == id \in {"conformant", "commented"}

-----------------------------------------------------------------------------
\* The metrics of Collect, in the order of the code.
TransportMetrics(r) ==
    When(r.DNSLookup,
         Gauge("dns_lookup_success", boolToFloat64(r.DNSLookupSuccess))
         \o When(r.DNSLookupSuccess, Gauge("dns_lookup_duration", r.DNSLookupDuration)))
    \o Gauge("tcp_connect_success", boolToFloat64(r.TCPConnectSuccess))
    \o When(r.TCPConnectSuccess,
            Gauge("tcp_connect_duration", r.TCPConnectDuration)
            \o When(r.TCPMSS > 0, Gauge("tcp_mss", r.TCPMSS)))

VersionExchangeMetrics(r) ==
    When(r.VersionExchangeSuccess,
         When(r.ServerIdentification # "none",
              Info("server_identification_info",
                   <<r.ServerIdentification, "protoversion", "softwareversion", "comments">>))
         \o Gauge("server_identification_rfc_conformant",
                  boolToFloat64(RFCConformant(r.ServerIdentification))))
    \o Gauge("version_exchange_success", boolToFloat64(r.VersionExchangeSuccess))
    \o When(r.VersionExchangeSuccess,
            Gauge("version_exchange_duration", r.VersionExchangeDuration))

\* Variant of MACMetric that has kept the label of the other direction.
MACWithOneDirection(r, direction) ==
    When(direction \in r.MACs, Info("mac_algorithm_info", <<"client_to_server", "mac">>))

MACMetric(r, direction) ==
    When(direction \in r.MACs, Info("mac_algorithm_info", <<direction, "mac">>))

\* The algorithm names are not empty once TransportReadyCallback has set them,
\* except that of a MAC that an AEAD cipher does not need.
AlgorithmMetrics(r) ==
    When(r.KeyExchangeSuccess /\ r.Algorithms, Info("kex_algorithm_info", <<"kex">>))
    \o When(r.Algorithms,
            Info("server_host_key_algorithm_info", <<"hostkey">>)
            \o Info("encryption_algorithm_info", <<"client_to_server", "cipher">>)
            \o Info("encryption_algorithm_info", <<"server_to_client", "cipher">>))
    \o MACMetric(r, "client_to_server")
    \o MACMetric(r, "server_to_client")

\* Variant of KeyExchangeTimed that reports a duration whenever there is one.
TimedWithVersionExchange(r) == r.VersionExchangeSuccess

KeyExchangeTimed(r) == r.KeyExchangeSuccess

KeyExchangeMetrics(r) ==
    Gauge("server_host_key_verify_success", boolToFloat64(r.ServerHostKeyVerifySuccess))
    \o Gauge("key_exchange_success", boolToFloat64(r.KeyExchangeSuccess))
    \o When(KeyExchangeTimed(r), Gauge("key_exchange_duration", r.KeyExchangeDuration))

OutcomeMetrics(r) ==
    When(r.ErrorPhase # "none", Info("error_info", <<r.ErrorPhase, r.ErrorReason>>))
    \o Gauge("duration", r.Duration)
    \o Gauge("success", boolToFloat64(r.Success))

\* Collect reads the result that Run returned, once.
Collect ==
    /\ pc = "done"
    /\ metrics = <<>>
    /\ metrics' = TransportMetrics(result) \o VersionExchangeMetrics(result)
                    \o AlgorithmMetrics(result) \o KeyExchangeMetrics(result)
                    \o OutcomeMetrics(result)
    /\ UNCHANGED vars

CollectorInit == Init /\ metrics = <<>>
CollectorNext == Collect \/ (Next /\ UNCHANGED metrics)
CollectorSpec == CollectorInit /\ [][CollectorNext]_collectorVars

-----------------------------------------------------------------------------
Emitted == {metrics[i] : i \in DOMAIN metrics}
Reports(desc, value) == \E m \in Emitted : m.desc = desc /\ m.value = value
Has(desc) == \E m \in Emitted : m.desc = desc

\* No result that Run can return costs the scrape its metrics: each metric has a value
\* for each label of its descriptor, without which mustNewConstMetric panics, and no two
\* share descriptor and labels, for which the registry's Gather fails and promhttp
\* answers 500 instead of the probe's result (collector.go:34-36, 257-352,
\* probehttp.go:119-123).  The branches of Collect are independent of one another.
GatherSucceeds ==
    /\ \A m \in Emitted : Len(m.labels) = Descs[m.desc]
    /\ Cardinality({<<m.desc, m.labels>> : m \in Emitted}) = Len(metrics)

\* A phase has a duration exactly if its success gauge reads 1, as the HELP texts
\* "Absent on failure" promise, so that no average mixes in phases that never
\* finished (collector.go:289-302, 312-315, 341-344).
DurationIffSuccess ==
    \A phase \in {<<"dns_lookup_success", "dns_lookup_duration">>,
                  <<"tcp_connect_success", "tcp_connect_duration">>,
                  <<"version_exchange_success", "version_exchange_duration">>,
                  <<"key_exchange_success", "key_exchange_duration">>} :
        Reports(phase[1], 1) <=> Has(phase[2])

\* The negotiated algorithms are "Absent unless key exchange completed" (HELP texts,
\* collector.go:120-151), although Collect emits all but one of them without asking
\* whether it did: only the order of Run's callbacks ensures it.
AlgorithmsOnlyWithKeyExchange ==
    (\E m \in Emitted : m.desc \in {"kex_algorithm_info", "server_host_key_algorithm_info",
                                    "encryption_algorithm_info", "mac_algorithm_info"}) =>
        Reports("key_exchange_success", 1)

\* A scrape reports success 1 or an error_info, never both and never neither
\* (collector.go:346-351).
SuccessOrErrorInfo ==
    metrics # <<>> => (Reports("success", 1) <=> ~Has("error_info"))
=============================================================================
