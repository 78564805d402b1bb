-------------------------- MODULE ForwarderProofs --------------------------
(***************************************************************************)
(* Proofs about the path from a poll to the dashboards, for any sentinels, *)
(* answers and batches, any lookback and skew, and no bound on the number  *)
(* of payloads or on time.                                                 *)
(***************************************************************************)
EXTENDS Forwarder, FiniteSetTheorems, TLAPS

SetNames == {"validator_set_size", "validator_set_total_power", "validator_set_power"}
MemoryNames == {"container_memory_usage", "container_memory_working_set"}

(* A sample of an rpc payload: whose it is, when, and from which key.      *)
RpcShape(k, v, t, s) ==
  /\ s.ts = t /\ s.labels.validator = v
  /\ s.name = "validator_online" => k = "status"
  /\ s.name \in SetNames => k = "validators"
  /\ s.name \notin MemoryNames

LEMMA SampleFacts ==
  ASSUME NEW n, NEW l, NEW x, NEW t, NEW s, s = vmSample(n, l, x, t) \/ s \in intSample(n, l, x, t)
  PROVE  s = vmSample(n, l, x, t) /\ s.name = n /\ s.labels = l /\ s.ts = t /\ s.value = x
BY DEF vmSample, intSample

LEMMA SampleFields ==
  ASSUME NEW n, NEW l, NEW x, NEW t
  PROVE  /\ vmSample(n, l, x, t).name = n /\ vmSample(n, l, x, t).labels = l
         /\ vmSample(n, l, x, t).value = x /\ vmSample(n, l, x, t).ts = t
BY DEF vmSample

LEMMA ConfigShape ==
  ASSUME NEW n, NEW v, NEW t, NEW values, NEW s \in ConfigSamples(n, v, t, values)
  PROVE  s.name = n /\ s.labels.validator = v /\ s.ts = t
BY SampleFacts DEF ConfigSamples, vmSample

LEMMA FieldShape ==
  ASSUME NEW l, NEW fields, NEW t, NEW s \in FieldSamples(l, fields, t)
  PROVE  s.name \in DOMAIN fields /\ s.labels = l /\ s.ts = t /\ s.value = fields[s.name]
BY DEF FieldSamples, vmSample

LEMMA RpcLineShape ==
  ASSUME NEW k, NEW v, NEW t, NEW r, NEW s \in rpcLines(k, v, t, r)
  PROVE  RpcShape(k, v, t, s)
<1> USE DEF RpcShape, SetNames, MemoryNames
<1>1. CASE k = "status"
  <2>1. s \in appendRPCStatus(v, t, r)
    BY <1>1 DEF rpcLines
  <2>2. \E n \in {"latest_block_height", "catching_up", "node_build_info", "validator_voting_power", "validator_online"} :
           s.name = n /\ s.ts = t /\ s.labels.validator = v
    BY <2>1 DEF appendRPCStatus, intSample, vmSample
  <2> QED  BY <1>1, <2>2
<1>2. CASE k = "net_info"
  <2>1. s \in appendRPCNetInfo(v, t, r)
    BY <1>2 DEF rpcLines
  <2> QED  BY <2>1 DEF appendRPCNetInfo, intSample, vmSample
<1>3. CASE k = "num_unconfirmed_txs"
  <2>1. s \in appendRPCMempool(v, t, r)
    BY <1>3 DEF rpcLines
  <2> QED  BY <2>1 DEF appendRPCMempool, intSample, vmSample
<1>4. CASE k = "dump_consensus_state"
  <2>1. s \in appendRPCConsensus(v, t, r)
    BY <1>4 DEF rpcLines
  <2> QED  BY <2>1 DEF appendRPCConsensus, intSample, vmSample
<1>5. CASE k = "validators"
  <2>1. s \in appendRPCValidators(v, t, r)
    BY <1>5 DEF rpcLines
  <2>2. s \in SetSamples(v, t, r.validators)
    BY <2>1 DEF appendRPCValidators
  <2>3. s.name \in SetNames /\ s.ts = t /\ s.labels.validator = v
    BY <2>2 DEF SetSamples, vmSample, MemberLabels
  <2> QED  BY <1>5, <2>3
<1>6. CASE k = "block"
  <2>1. s \in appendRPCBlock(v, t, r)
    BY <1>6 DEF rpcLines
  <2> QED  BY <2>1 DEF appendRPCBlock, intSample, vmSample
<1>7. CASE k = "genesis"
  <2>1. s \in appendRPCGenesis(v, t, r)
    BY <1>7 DEF rpcLines
  <2> QED  BY <2>1, ConfigShape DEF appendRPCGenesis, vmSample, ForEach
<1>8. CASE k = "sentry_status"
  <2>1. s \in appendRPCSentryStatus(v, t, r)
    BY <1>8 DEF rpcLines
  <2> QED  BY <2>1 DEF appendRPCSentryStatus, vmSample
<1>9. CASE k = "sentry_net_info"
  <2>1. s \in appendRPCSentryNetInfo(v, t, r)
    BY <1>9 DEF rpcLines
  <2> QED  BY <2>1 DEF appendRPCSentryNetInfo, intSample, vmSample
<1>10. CASE k = "sentry_config"
  <2>1. s \in appendRPCSentryConfig(v, t, r)
    BY <1>10 DEF rpcLines
  <2> QED  BY <2>1, ConfigShape DEF appendRPCSentryConfig
<1>11. CASE k = "rpc_reachable"
  <2>1. s \in appendRPCReachable(v, t, r)
    BY <1>11 DEF rpcLines
  <2> QED  BY <2>1 DEF appendRPCReachable, vmSample
<1>12. k \in {"status", "net_info", "num_unconfirmed_txs", "dump_consensus_state", "validators", "block",
              "genesis", "sentry_status", "sentry_net_info", "sentry_config", "rpc_reachable"}
  BY DEF rpcLines
<1> QED  BY <1>1, <1>2, <1>3, <1>4, <1>5, <1>6, <1>7, <1>8, <1>9, <1>10, <1>11, <1>12

(* A sample of a metrics payload.                                          *)
MetricsShape(k, v, t, s) ==
  /\ s.ts = t /\ s.labels.validator = v
  /\ s.name # "validator_online" /\ s.name \notin SetNames
  /\ s.name \in MemoryNames => k = "container"

LEMMA MetricsLineShape ==
  ASSUME NEW k, NEW v, NEW t, NEW r, NEW s \in metricsLines(k, v, t, r)
  PROVE  MetricsShape(k, v, t, s)
<1> USE DEF MetricsShape, SetNames, MemoryNames
<1>1. CASE k = "cpu"
  <2>1. s \in appendHostCPU(v, t, r)
    BY <1>1 DEF metricsLines
  <2> QED  BY <2>1 DEF appendHostCPU, vmSample
<1>2. CASE k = "memory"
  <2>1. s \in appendHostMemory(v, t, r)
    BY <1>2 DEF metricsLines
  <2> QED  BY <2>1, FieldShape DEF appendHostMemory
<1>3. CASE k = "disk"
  <2>1. s \in appendHostDisk(v, t, r)
    BY <1>3 DEF metricsLines
  <2> QED  BY <2>1, FieldShape DEF appendHostDisk
<1>4. CASE k = "network"
  <2>1. s \in appendHostNetwork(v, t, r)
    BY <1>4 DEF metricsLines
  <2>2. \E n : s \in FieldSamples([validator |-> v, interface |-> n.name],
                  [host_network_receive |-> n.recv, host_network_transmit |-> n.sent], t)
    BY <2>1 DEF appendHostNetwork, ForEach
  <2> QED  BY <2>2, FieldShape
<1>5. CASE k = "container"
  <2>1. s \in appendContainer(v, t, r)
    BY <1>5 DEF metricsLines
  <2> QED  BY <1>5, <2>1, FieldShape DEF appendContainer
<1>6. CASE k = "config"
  <2>1. s \in appendNodeConfig(v, t, r)
    BY <1>6 DEF metricsLines
  <2> QED  BY <2>1, ConfigShape DEF appendNodeConfig
<1>7. CASE k = "self_stats"
  <2>1. s \in appendSelfStats(v, t, r)
    BY <1>7 DEF metricsLines
  <2> QED  BY <2>1 DEF appendSelfStats, vmSample
<1>8. k \in {"cpu", "memory", "disk", "network", "container", "config", "self_stats"}
  BY DEF metricsLines
<1> QED  BY <1>1, <1>2, <1>3, <1>4, <1>5, <1>6, <1>7, <1>8
-----------------------------------------------------------------------------
(* What a payload's samples are, series by series.                         *)
LEMMA RpcSamples ==
  ASSUME NEW v, NEW t, NEW data, NEW s \in extractRPC(v, t, data)
  PROVE  \E k \in DOMAIN data : data[k].ok /\ s \in rpcLines(k, v, t, data[k]) /\ RpcShape(k, v, t, s)
<1>1. PICK k \in DOMAIN data : data[k].ok /\ s \in rpcLines(k, v, t, data[k])
  BY DEF extractRPC
<1> QED  BY <1>1, RpcLineShape

LEMMA MetricsSamples ==
  ASSUME NEW v, NEW t, NEW data, NEW s \in extractMetrics(v, t, data)
  PROVE  \E k \in DOMAIN data : data[k].ok /\ s \in metricsLines(k, v, t, data[k]) /\ MetricsShape(k, v, t, s)
<1>1. PICK k \in DOMAIN data : data[k].ok /\ s \in metricsLines(k, v, t, data[k])
  BY DEF extractMetrics
<1> QED  BY <1>1, MetricsLineShape

LEMMA LineShape ==
  ASSUME NEW p, NEW s \in Lines(p)
  PROVE  s.ts = p.ts /\ s.labels.validator = p.validator
<1>1. CASE p.kind = "rpc"
  BY <1>1, RpcSamples DEF Lines, Timestamp, RpcShape
<1>2. CASE p.kind # "rpc"
  BY <1>2, MetricsSamples DEF Lines, Timestamp, MetricsShape
<1> QED  BY <1>1, <1>2

OnlineSample(p) ==
  vmSample("validator_online", [validator |-> p.validator, address |-> p.data["status"].address], 1, p.ts)

(* Only a status that is caught up brings a presence sample.               *)
LEMMA StatusOnline ==
  ASSUME NEW v, NEW t, NEW r, NEW s
  PROVE  s \in appendRPCStatus(v, t, r) /\ s.name = "validator_online" <=>
           /\ r.validator_info /\ r.address # Empty /\ ~r.catching_up
           /\ s = vmSample("validator_online", [validator |-> v, address |-> r.address], 1, t)
BY DEF appendRPCStatus, intSample, vmSample

LEMMA OnlineLines ==
  ASSUME NEW p, p.kind \in {"rpc", "metrics"}, NEW s
  PROVE  s \in Lines(p) /\ s.name = "validator_online" <=>
           p.kind = "rpc" /\ CaughtUp(p.data) /\ s = OnlineSample(p)
<1>1. ASSUME s \in Lines(p), s.name = "validator_online"
      PROVE  p.kind = "rpc" /\ CaughtUp(p.data) /\ s = OnlineSample(p)
  <2>1. p.kind = "rpc"
    BY <1>1, MetricsSamples DEF Lines, MetricsShape
  <2>2. s \in extractRPC(p.validator, p.ts, p.data)
    BY <1>1, <2>1 DEF Lines, Timestamp
  <2>3. /\ "status" \in DOMAIN p.data /\ p.data["status"].ok
        /\ s \in rpcLines("status", p.validator, p.ts, p.data["status"])
    BY <1>1, <2>2, RpcSamples DEF RpcShape
  <2>4. s \in appendRPCStatus(p.validator, p.ts, p.data["status"])
    BY <2>3 DEF rpcLines
  <2> QED  BY <1>1, <2>1, <2>3, <2>4, StatusOnline DEF CaughtUp, OnlineSample
<1>2. ASSUME p.kind = "rpc", CaughtUp(p.data), s = OnlineSample(p)
      PROVE  s \in Lines(p) /\ s.name = "validator_online"
  <2>1. /\ p.kind = "rpc" /\ "status" \in DOMAIN p.data /\ p.data["status"].ok
        /\ s \in appendRPCStatus(p.validator, p.ts, p.data["status"]) /\ s.name = "validator_online"
    BY <1>2, StatusOnline DEF CaughtUp, OnlineSample
  <2>2. s \in rpcLines("status", p.validator, p.ts, p.data["status"])
    BY <2>1 DEF rpcLines
  <2> QED  BY <2>1, <2>2 DEF Lines, Timestamp, extractRPC
<1> QED  BY <1>1, <1>2
-----------------------------------------------------------------------------
LogLine == [object : BOOLEAN, module : Int, ts : STRING, at : Int]
Imported == {p \in stored : p.kind \in {"rpc", "metrics"}}

(* What the polls put into a payload.                                      *)
PayloadOK(p) ==
  /\ p.kind \in {"rpc", "metrics", "logs"}
  /\ p.ts \in Nat
  /\ p.kind = "metrics" /\ "container" \in DOMAIN p.data /\ p.data["container"].ok =>
       /\ p.data["container"].memory.usage \in 0..(Word - 1)
       /\ p.data["container"].memory.inactive_file \in {NotInt} \cup 0..(Word - 1)
  /\ p.kind = "logs" => p.data.lines \in Seq(LogLine)

(* A payload is known by its kind, validator and time, and the database    *)
(* holds the samples of the payloads it took, each as often as it came.    *)
PathInv ==
  /\ now \in Nat
  /\ flight \subseteq made /\ stored \subseteq made
  /\ \A p \in made : PayloadOK(p) /\ p.ts <= now
  /\ \A p, q \in made : p.kind = q.kind /\ p.validator = q.validator /\ p.ts = q.ts => p = q
  /\ vm = UNION {Lines(p) : p \in Imported}

LEMMA SubmitKeeps ==
  ASSUME PathInv, NEW p, PayloadOK(p), p.ts = now, Submit(p)
  PROVE  PathInv'
<1>1. made' = made \cup {p} /\ flight' = flight \cup {p} /\ UNCHANGED <<now, stored, vm>>
  BY DEF Submit
<1>2. \A q \in made : ~(q.kind = p.kind /\ q.validator = p.validator /\ q.ts = p.ts)
  BY DEF Submit
<1>3. \A q, r \in made' : q.kind = r.kind /\ q.validator = r.validator /\ q.ts = r.ts => q = r
  BY <1>1, <1>2 DEF PathInv
<1>4. \A q \in made' : PayloadOK(q) /\ q.ts <= now'
  BY <1>1 DEF PathInv
<1>5. vm' = UNION {Lines(q) : q \in Imported'}
  BY <1>1 DEF PathInv, Imported
<1> QED  BY <1>1, <1>3, <1>4, <1>5 DEF PathInv

LEMMA Dated ==
  ASSUME NEW line \in LogLine, NEW n \in Nat
  PROVE  [line EXCEPT !.at = n + @] \in LogLine
<1>1. line.at \in Int /\ n + line.at \in Int
  BY DEF LogLine
<1> QED  BY <1>1 DEF LogLine

LEMMA PathStep == PathInv /\ [Next]_vars => PathInv'
<1> SUFFICES ASSUME PathInv, [Next]_vars PROVE PathInv'
  OBVIOUS
<1>1. CASE Tick
  <2>1. now' = now + 1 /\ UNCHANGED <<made, flight, stored, vm>>
    BY <1>1 DEF Tick
  <2>2. \A p \in made' : PayloadOK(p) /\ p.ts <= now'
    BY <2>1 DEF PathInv, PayloadOK
  <2>3. vm' = UNION {Lines(q) : q \in Imported'}
    BY <2>1 DEF PathInv, Imported
  <2> QED  BY <2>1, <2>2, <2>3 DEF PathInv
<1>2. ASSUME NEW v \in Validators, NEW sample, NEW kind \in {"rpc", "metrics"},
             kind = "metrics" => sample \in MetricsData, Poll(kind, v, sample)
      PROVE  PathInv'
  <2> DEFINE kept == DOMAIN sample \ {k \in Filtered \cap DOMAIN sample : sample[k] = hash[v][k]}
             p == [kind |-> kind, validator |-> v, ts |-> now, data |-> [k \in kept |-> sample[k]]]
  <2>1. Submit(p)
    BY <1>2 DEF Poll
  <2>2. p.kind = kind /\ p.ts = now /\ DOMAIN p.data \subseteq DOMAIN sample
        /\ \A k \in DOMAIN p.data : p.data[k] = sample[k]
    OBVIOUS
  <2> HIDE DEF p
  <2>3. PayloadOK(p)
    BY <1>2, <2>2, DataAssumption DEF PayloadOK, PathInv
  <2> QED  BY <2>1, <2>2, <2>3, SubmitKeeps
<1>3. ASSUME NEW v \in Validators, NEW lines \in Batches, CollectLogs(v, lines) PROVE PathInv'
  <2> DEFINE dated == [i \in DOMAIN lines |-> [lines[i] EXCEPT !.at = now + @]]
             p == [kind |-> "logs", validator |-> v, ts |-> now, data |-> [lines |-> dated]]
  <2>1. Submit(p)
    BY <1>3 DEF CollectLogs
  <2>2. lines \in Seq(LogLine) /\ now \in Nat
    BY DataAssumption DEF LogLine, PathInv
  <2>3. dated \in Seq(LogLine)
    <3>1. \A i \in DOMAIN lines : [lines[i] EXCEPT !.at = now + @] \in LogLine
      BY <2>2, Dated
    <3> QED  BY <2>2, <3>1
  <2>4. p.kind = "logs" /\ p.ts = now /\ p.data.lines = dated
    OBVIOUS
  <2> HIDE DEF p, dated
  <2>5. PayloadOK(p)
    BY <2>2, <2>3, <2>4 DEF PayloadOK
  <2> QED  BY <2>1, <2>4, <2>5, SubmitKeeps
<1>4. ASSUME NEW p \in flight, ForwardLines(p) PROVE PathInv'
  <2>1. /\ UNCHANGED <<now, made>> /\ flight' \subseteq flight /\ stored' = stored \cup {p}
        /\ vm' = vm \cup Lines(p) /\ p.kind \in {"rpc", "metrics"}
    BY <1>4 DEF ForwardLines, Sent
  <2>2. Imported' = Imported \cup {p}
    BY <2>1 DEF Imported
  <2>3. vm' = UNION {Lines(q) : q \in Imported'}
    BY <2>1, <2>2 DEF PathInv
  <2> QED  BY <2>1, <2>3 DEF PathInv
<1>5. ASSUME NEW p \in flight, ForwardLogs(p) PROVE PathInv'
  <2>1. /\ UNCHANGED <<now, made, vm>> /\ flight' \subseteq flight /\ stored' = stored \cup {p}
        /\ p.kind = "logs"
    BY <1>5 DEF ForwardLogs, Sent
  <2>2. Imported' = Imported
    BY <2>1 DEF Imported
  <2> QED  BY <2>1, <2>2 DEF PathInv
<1>6. ASSUME NEW p \in flight, GiveUp(p) PROVE PathInv'
  BY <1>6 DEF GiveUp, PathInv, Imported
<1>7. CASE UNCHANGED vars
  BY <1>7 DEF vars, PathInv, Imported
<1> QED  BY <1>1, <1>2, <1>3, <1>4, <1>5, <1>6, <1>7 DEF Next, PollRpc, PollMetrics

LEMMA PathInit == Init => PathInv
BY DEF Init, PathInv, Imported

LEMMA PathInvariant == Spec => []PathInv
BY PathInit, PathStep, PTL DEF Spec
-----------------------------------------------------------------------------
(* A status of a node that is caught up.                                   *)
Up(r) == r.ok /\ r.validator_info /\ r.address # Empty /\ ~r.catching_up

FoundBefore(u, polls) == \E e \in polls : e.validator = u.validator /\ e.address = u.address /\ e.ts < u.ts

PollOf(p, u) == p.kind = "rpc" /\ p.validator = u.validator /\ p.ts = u.ts

(* The filter knows a caught-up status only from a poll that found it; a   *)
(* payload that carries one comes from such a poll; and each of them made  *)
(* a payload that carries it or was not the first to find it.              *)
UpInv ==
  /\ PathInv
  /\ DOMAIN hash = Validators
  /\ \A v \in Validators : hash[v]["status"] # NoHash /\ Up(hash[v]["status"]) =>
       \E e \in up : e.validator = v /\ e.address = hash[v]["status"].address
  /\ \A p \in made : p.kind = "rpc" /\ CaughtUp(p.data) => Presence(p.validator, p.ts, p.data) \in up
  /\ \A u \in up : \E p \in made :
       /\ PollOf(p, u)
       /\ (CaughtUp(p.data) /\ u = Presence(p.validator, p.ts, p.data)) \/ FoundBefore(u, up)

LEMMA UpPoll ==
  ASSUME UpInv, PathInv', NEW v \in Validators, NEW sample, NEW kind \in {"rpc", "metrics"},
         kind = "metrics" => sample \in MetricsData, kind = "rpc" => sample \in RpcAnswers,
         Poll(kind, v, sample)
  PROVE  UpInv'
<1> DEFINE unchanged == {k \in Filtered \cap DOMAIN sample : sample[k] = hash[v][k]}
           data == [k \in DOMAIN sample \ unchanged |-> sample[k]]
           p == [kind |-> kind, validator |-> v, ts |-> now, data |-> data]
           u == Presence(v, now, sample)
<1>1. /\ Submit(p)
      /\ hash' = [hash EXCEPT ![v] = [k \in Filtered |-> IF k \in DOMAIN sample THEN sample[k] ELSE @[k]]]
      /\ up' = IF CaughtUp(sample) THEN up \cup {u} ELSE up
  BY DEF Poll
<1>2. /\ made' = made \cup {p} /\ up \subseteq up'
      /\ \A q \in made : ~(q.kind = kind /\ q.validator = v /\ q.ts = now)
  BY <1>1 DEF Submit
<1>3. /\ DOMAIN hash' = Validators
      /\ \A w \in Validators \ {v} : hash'[w] = hash[w]
      /\ hash'[v]["status"] = IF "status" \in DOMAIN sample THEN sample["status"] ELSE hash[v]["status"]
  BY <1>1 DEF UpInv, Filtered
<1>4. CaughtUp(sample) => /\ "status" \in DOMAIN sample /\ Up(sample["status"]) /\ kind = "rpc"
                          /\ sample["status"] # NoHash
  <2> SUFFICES ASSUME CaughtUp(sample)
               PROVE  /\ "status" \in DOMAIN sample /\ Up(sample["status"]) /\ kind = "rpc"
                      /\ sample["status"] # NoHash
    OBVIOUS
  <2>1. "status" \in DOMAIN sample /\ Up(sample["status"])
    BY DEF CaughtUp, Up
  <2>2. kind = "rpc"
    BY <2>1, DataAssumption
  <2>3. "ok" \in DOMAIN sample["status"]
    BY <2>1, <2>2, DataAssumption
  <2>4. DOMAIN NoHash = {"never"}
    BY DEF NoHash
  <2>5. sample["status"] # NoHash
    BY <2>3, <2>4
  <2> QED  BY <2>1, <2>2, <2>5
<1>5. u.validator = v /\ u.ts = now /\ u.address = sample["status"].address
  BY DEF Presence
<1>6. p.kind = kind /\ p.validator = v /\ p.ts = now /\ p.data = data
  OBVIOUS
<1>7. "status" \in DOMAIN data => "status" \in DOMAIN sample /\ data["status"] = sample["status"]
  OBVIOUS
<1>8. "status" \in DOMAIN sample /\ "status" \notin DOMAIN data => sample["status"] = hash[v]["status"]
  OBVIOUS
<1> HIDE DEF p, u, data
<1>9. ASSUME NEW w \in Validators, hash'[w]["status"] # NoHash, Up(hash'[w]["status"])
      PROVE  \E e \in up' : e.validator = w /\ e.address = hash'[w]["status"].address
  <2>1. CASE w = v /\ "status" \in DOMAIN sample
    <3>1. CaughtUp(sample) /\ hash'[w]["status"] = sample["status"]
      BY <1>3, <1>9, <2>1 DEF CaughtUp, Up
    <3>2. u \in up'
      BY <1>1, <3>1
    <3> QED  BY <1>5, <2>1, <3>1, <3>2
  <2>2. CASE ~(w = v /\ "status" \in DOMAIN sample)
    <3>1. hash'[w]["status"] = hash[w]["status"]
      BY <1>3, <2>2
    <3> QED  BY <1>2, <1>9, <3>1 DEF UpInv
  <2> QED  BY <2>1, <2>2
<1>10. CaughtUp(data) => CaughtUp(sample) /\ Presence(v, now, data) = u
  BY <1>7 DEF CaughtUp, Presence, u
<1>11. ASSUME NEW q \in made', q.kind = "rpc", CaughtUp(q.data)
       PROVE  Presence(q.validator, q.ts, q.data) \in up'
  BY <1>1, <1>2, <1>6, <1>10, <1>11 DEF UpInv
<1>12. ASSUME NEW x \in up, FoundBefore(x, up) PROVE FoundBefore(x, up')
  BY <1>2, <1>12 DEF FoundBefore
<1>13. ASSUME NEW x \in up
       PROVE  \E q \in made' : /\ PollOf(q, x)
                               /\ \/ CaughtUp(q.data) /\ x = Presence(q.validator, q.ts, q.data)
                                  \/ FoundBefore(x, up')
  BY <1>2, <1>12 DEF UpInv
<1>14. ASSUME CaughtUp(sample), ~CaughtUp(data) PROVE FoundBefore(u, up')
  <2>1. "status" \notin DOMAIN data
    BY <1>7, <1>14 DEF CaughtUp
  <2>2. sample["status"] = hash[v]["status"] /\ sample["status"] # NoHash /\ Up(sample["status"])
    BY <1>4, <1>8, <1>14, <2>1
  <2>3. PICK e \in up : e.validator = v /\ e.address = sample["status"].address
    BY <2>2 DEF UpInv
  <2>4. PICK q \in made : PollOf(q, e)
    BY DEF UpInv
  <2>5. q.ts \in Nat /\ now \in Nat /\ q.ts <= now /\ q.ts # now
    BY <1>2, <1>4, <1>14, <2>3, <2>4 DEF UpInv, PathInv, PayloadOK, PollOf
  <2>6. e.ts < u.ts
    BY <1>5, <2>4, <2>5 DEF PollOf
  <2> QED  BY <1>2, <1>5, <2>3, <2>6 DEF FoundBefore
<1>15. ASSUME CaughtUp(sample)
       PROVE  /\ p \in made' /\ PollOf(p, u)
              /\ (CaughtUp(p.data) /\ u = Presence(p.validator, p.ts, p.data)) \/ FoundBefore(u, up')
  BY <1>2, <1>4, <1>5, <1>6, <1>10, <1>14, <1>15 DEF PollOf
<1>16. \A x \in up' : \E q \in made' :
         /\ PollOf(q, x)
         /\ (CaughtUp(q.data) /\ x = Presence(q.validator, q.ts, q.data)) \/ FoundBefore(x, up')
  BY <1>1, <1>13, <1>15
<1> QED  BY <1>3, <1>9, <1>11, <1>16 DEF UpInv

LEMMA UpStep == UpInv /\ [Next]_vars => UpInv'
<1> SUFFICES ASSUME UpInv, [Next]_vars PROVE UpInv'
  OBVIOUS
<1>1. PathInv'
  BY PathStep DEF UpInv
<1>2. ASSUME UNCHANGED <<hash, up, made>> PROVE UpInv'
  BY <1>1, <1>2 DEF UpInv, FoundBefore
<1>3. ASSUME NEW v \in Validators, NEW answer \in RpcAnswers, PollRpc(v, answer) PROVE UpInv'
  BY <1>1, <1>3, UpPoll DEF PollRpc
<1>4. ASSUME NEW v \in Validators, NEW data \in MetricsData, PollMetrics(v, data) PROVE UpInv'
  BY <1>1, <1>4, UpPoll DEF PollMetrics
<1>5. ASSUME NEW v \in Validators, NEW lines \in Batches, CollectLogs(v, lines) PROVE UpInv'
  <2>1. PICK p : p.kind = "logs" /\ made' = made \cup {p} /\ UNCHANGED <<hash, up>>
    BY <1>5 DEF CollectLogs, Submit
  <2> QED  BY <1>1, <2>1 DEF UpInv, FoundBefore
<1> QED  BY <1>2, <1>3, <1>4, <1>5 DEF Next, Tick, ForwardLines, ForwardLogs, GiveUp, vars

(* The presence series says what the polls of the nodes found: an online   *)
(* sample within the lookback comes from a poll of that time that found    *)
(* the node caught up, over repeated, late and lost posts, and such a poll *)
(* whose payload arrived is missing only if it was not the first to find   *)
(* the node so.                                                            *)
THEOREM PresenceAsPolled == Spec => []OnlineAsPolled
<1>1. UpInv => OnlineAsPolled
  <2> SUFFICES ASSUME UpInv PROVE OnlineAsPolled
    OBVIOUS
  <2> DEFINE Entry(s) == [validator |-> s.labels.validator, address |-> s.labels.address, ts |-> s.ts]
  <2>1. ASSUME NEW p PROVE Entry(OnlineSample(p)) = Presence(p.validator, p.ts, p.data)
    BY DEF OnlineSample, vmSample, Presence
  <2>2. ASSUME NEW s \in Seen("validator_online") PROVE Entry(s) \in RecentlyUp
    <3>1. PICK p \in Imported : s \in Lines(p)
      BY DEF Seen, UpInv, PathInv
    <3>2. p.kind = "rpc" /\ CaughtUp(p.data) /\ s = OnlineSample(p)
      BY <3>1, OnlineLines DEF Seen, Imported
    <3>3. Entry(s) = Presence(p.validator, p.ts, p.data) /\ Entry(s).ts = s.ts
      BY <2>1, <3>2
    <3>4. Presence(p.validator, p.ts, p.data) \in up
      BY <3>1, <3>2 DEF UpInv, PathInv, Imported
    <3> QED  BY <3>3, <3>4 DEF RecentlyUp, Seen
  <2>3. ASSUME NEW u \in RecentlyUp \ Shown, Reported(u) PROVE FoundBefore(u, up)
    <3>1. PICK p \in stored : PollOf(p, u)
      BY <2>3 DEF Reported, PollOf
    <3>2. PICK q \in made :
            /\ PollOf(q, u)
            /\ (CaughtUp(q.data) /\ u = Presence(q.validator, q.ts, q.data)) \/ FoundBefore(u, up)
      BY DEF UpInv, RecentlyUp
    <3>3. p = q
      BY <3>1, <3>2 DEF UpInv, PathInv, PollOf
    <3>4. CASE CaughtUp(p.data) /\ u = Presence(p.validator, p.ts, p.data)
      <4>1. p \in Imported /\ p.kind = "rpc" /\ p.ts <= now
        BY <3>1 DEF Imported, PollOf, UpInv, PathInv
      <4>2. OnlineSample(p) \in Lines(p) /\ OnlineSample(p).name = "validator_online"
        BY <3>4, <4>1, OnlineLines
      <4>3. OnlineSample(p).ts = p.ts /\ u.ts = p.ts
        BY <3>1 DEF OnlineSample, vmSample, PollOf
      <4>4. OnlineSample(p) \in vm
        BY <4>1, <4>2 DEF UpInv, PathInv
      <4>5. OnlineSample(p) \in Seen("validator_online")
        BY <4>1, <4>2, <4>3, <4>4 DEF Seen, RecentlyUp
      <4>6. u \in Shown
        BY <2>1, <3>4, <4>5 DEF Shown
      <4> QED  BY <4>6
    <3> QED  BY <3>2, <3>3, <3>4
  <2> QED  BY <2>2, <2>3 DEF OnlineAsPolled, Shown, FoundBefore
<1>2. Init => UpInv
  BY PathInit DEF Init, UpInv, Filtered
<1> QED  BY <1>1, <1>2, UpStep, PTL DEF Spec
-----------------------------------------------------------------------------
(* A series of the validator set, at the time of a payload, comes from the *)
(* validators of that payload alone.                                       *)
LEMMA SetAt ==
  ASSUME PathInv, NEW p \in stored, p.kind = "rpc", "validators" \in DOMAIN p.data,
         NEW name \in SetNames, NEW s
  PROVE  s \in At(name, p.validator, p.ts) <=>
           /\ p.data["validators"].ok /\ s.name = name
           /\ s \in appendRPCValidators(p.validator, p.ts, p.data["validators"])
<1>1. ASSUME s \in At(name, p.validator, p.ts)
      PROVE  /\ p.data["validators"].ok /\ s.name = name
             /\ s \in appendRPCValidators(p.validator, p.ts, p.data["validators"])
  <2>1. s \in vm /\ s.name = name /\ s.labels.validator = p.validator /\ s.ts = p.ts
    BY <1>1 DEF At
  <2>2. PICK q \in Imported : s \in Lines(q)
    BY <2>1 DEF PathInv
  <2>3. q.kind = "rpc"
    BY <2>1, <2>2, MetricsSamples DEF Lines, MetricsShape
  <2>4. q = p
    BY <2>1, <2>2, <2>3, LineShape DEF PathInv, Imported
  <2>5. s \in extractRPC(p.validator, p.ts, p.data)
    BY <2>2, <2>3, <2>4 DEF Lines, Timestamp
  <2>6. p.data["validators"].ok /\ s \in rpcLines("validators", p.validator, p.ts, p.data["validators"])
    BY <2>1, <2>5, RpcSamples DEF RpcShape
  <2> QED  BY <2>1, <2>6 DEF rpcLines
<1>2. ASSUME p.data["validators"].ok, s.name = name,
             s \in appendRPCValidators(p.validator, p.ts, p.data["validators"])
      PROVE  s \in At(name, p.validator, p.ts)
  <2>1. s \in rpcLines("validators", p.validator, p.ts, p.data["validators"])
    BY <1>2 DEF rpcLines
  <2>2. s \in Lines(p) /\ p \in Imported
    BY <1>2, <2>1 DEF Lines, Timestamp, extractRPC, Imported
  <2> QED  BY <1>2, <2>2, LineShape DEF At, PathInv
<1> QED  BY <1>1, <1>2

(* The samples of a set that parses, by name.                              *)
LEMMA SetByName ==
  ASSUME NEW v, NEW t, NEW members, NEW s
  PROVE  s \in SetSamples(v, t, members) <=>
           \/ s = vmSample("validator_set_size", [validator |-> v], Len(members), t)
           \/ s = vmSample("validator_set_total_power", [validator |-> v], TotalPower(members), t)
           \/ \E m \in {m \in ToSet(members) : m.address # Empty} :
                s = vmSample("validator_set_power", MemberLabels(v, m), m.power, t)
BY DEF SetSamples

(* The forwarder reports a whole validator set or nothing of it.           *)
THEOREM SetIsNeverPartial == Spec => []SetNeverPartial
<1>1. PathInv => SetNeverPartial
  <2> SUFFICES ASSUME PathInv, NEW p \in stored, p.kind = "rpc", "validators" \in DOMAIN p.data
               PROVE  LET set     == p.data["validators"].validators
                          size    == {s.value : s \in At("validator_set_size", p.validator, p.ts)}
                          total   == {s.value : s \in At("validator_set_total_power", p.validator, p.ts)}
                          members == {<<s.labels.address, s.value>> :
                                        s \in At("validator_set_power", p.validator, p.ts)}
                      IN  \/ size = {} /\ total = {} /\ members = {}
                          \/ /\ size = {Len(set)} /\ total = {TotalPower(set)}
                             /\ members = {<<m.address, m.power>> : m \in {m \in ToSet(set) : m.address # Empty}}
    BY DEF SetNeverPartial
  <2> DEFINE set == p.data["validators"].validators
             samples == appendRPCValidators(p.validator, p.ts, p.data["validators"])
  <2>1. CASE ~p.data["validators"].ok \/ samples = {}
    <3>1. \A name \in SetNames : At(name, p.validator, p.ts) = {}
      BY <2>1, SetAt
    <3>2. /\ At("validator_set_size", p.validator, p.ts) = {}
          /\ At("validator_set_total_power", p.validator, p.ts) = {}
          /\ At("validator_set_power", p.validator, p.ts) = {}
      BY <3>1 DEF SetNames
    <3> QED  BY <3>2
  <2>2. CASE p.data["validators"].ok /\ samples # {}
    <3>1. samples = SetSamples(p.validator, p.ts, set)
      BY <2>2 DEF appendRPCValidators
    <3>2. \A name \in SetNames : \A s :
            s \in At(name, p.validator, p.ts) <=> s.name = name /\ s \in SetSamples(p.validator, p.ts, set)
      BY <2>2, <3>1, SetAt
    <3>3. PICK x : /\ x = vmSample("validator_set_size", [validator |-> p.validator], Len(set), p.ts)
                   /\ x.name = "validator_set_size" /\ x.value = Len(set)
      BY SampleFields
    <3>4. PICK y : /\ y = vmSample("validator_set_total_power", [validator |-> p.validator], TotalPower(set), p.ts)
                   /\ y.name = "validator_set_total_power" /\ y.value = TotalPower(set)
      BY SampleFields
    <3>5. ASSUME NEW m, NEW z, z = vmSample("validator_set_power", MemberLabels(p.validator, m), m.power, p.ts)
          PROVE  z.name = "validator_set_power" /\ z.labels.address = m.address /\ z.value = m.power
      <4>1. MemberLabels(p.validator, m).address = m.address
        BY DEF MemberLabels
      <4> QED  BY <3>5, <4>1, SampleFields
    <3> DEFINE Of(s, m) == s = vmSample("validator_set_power", MemberLabels(p.validator, m), m.power, p.ts)
               named == {m \in ToSet(set) : m.address # Empty}
    <3>6. \A s : s \in SetSamples(p.validator, p.ts, set) <=> s = x \/ s = y \/ \E m \in named : Of(s, m)
      BY <3>3, <3>4, SetByName
    <3>7. \A s, m : Of(s, m) => s.name = "validator_set_power" /\ s.labels.address = m.address /\ s.value = m.power
      BY <3>5
    <3> HIDE DEF Of, named
    <3>8. /\ At("validator_set_size", p.validator, p.ts) = {x}
          /\ At("validator_set_total_power", p.validator, p.ts) = {y}
          /\ \A s : s \in At("validator_set_power", p.validator, p.ts) <=> \E m \in named : Of(s, m)
      <4>1. \A s : s \in At("validator_set_size", p.validator, p.ts) <=> s = x
        BY <3>2, <3>3, <3>4, <3>6, <3>7 DEF SetNames
      <4>2. \A s : s \in At("validator_set_total_power", p.validator, p.ts) <=> s = y
        BY <3>2, <3>3, <3>4, <3>6, <3>7 DEF SetNames
      <4>3. \A s : s \in At("validator_set_power", p.validator, p.ts) <=> \E m \in named : Of(s, m)
        BY <3>2, <3>3, <3>4, <3>6, <3>7 DEF SetNames
      <4> QED  BY <4>1, <4>2, <4>3
    <3>9. {<<s.labels.address, s.value>> : s \in At("validator_set_power", p.validator, p.ts)}
            = {<<m.address, m.power>> : m \in named}
      <4>1. ASSUME NEW s \in At("validator_set_power", p.validator, p.ts)
            PROVE  \E m \in named : s.labels.address = m.address /\ s.value = m.power
        BY <3>7, <3>8
      <4>2. ASSUME NEW m \in named
            PROVE  \E s \in At("validator_set_power", p.validator, p.ts) : s.labels.address = m.address /\ s.value = m.power
        <5>1. PICK s : Of(s, m)
          BY DEF Of
        <5> QED  BY <3>7, <3>8, <5>1
      <4> QED  BY <4>1, <4>2
    <3> QED  BY <3>3, <3>4, <3>8, <3>9 DEF named
  <2> QED  BY <2>1, <2>2
<1> QED  BY <1>1, PathInvariant, PTL
-----------------------------------------------------------------------------
LEMMA ModSmall ==
  ASSUME NEW x \in Nat, NEW w \in Nat, x < w
  PROVE  x % w = x
BY SMTT(30)

LEMMA WorkingSetFacts ==
  ASSUME NEW m, m.usage \in 0..(Word - 1), m.inactive_file \in {NotInt} \cup 0..(Word - 1)
  PROVE  workingSet(m) \in 0..m.usage
<1>1. CASE m.inactive_file # NotInt /\ m.inactive_file <= m.usage
  <2>1. PICK x \in Nat : x = m.usage - m.inactive_file /\ x < Word /\ x <= m.usage
    BY <1>1, WordAssumption DEF NotInt
  <2>2. workingSet(m) = x % Word
    BY <1>1, <2>1 DEF workingSet
  <2> QED  BY <2>1, <2>2, ModSmall, WordAssumption
<1>2. CASE ~(m.inactive_file # NotInt /\ m.inactive_file <= m.usage)
  BY <1>2, WordAssumption DEF workingSet
<1> QED  BY <1>1, <1>2

(* The memory series of a container come from one payload's container.     *)
LEMMA MemoryAt ==
  ASSUME PathInv, NEW name \in MemoryNames, NEW v, NEW t, NEW s \in At(name, v, t)
  PROVE  \E p \in made :
           /\ p.kind = "metrics" /\ p.validator = v /\ p.ts = t
           /\ "container" \in DOMAIN p.data /\ p.data["container"].ok
           /\ s \in appendContainer(v, t, p.data["container"])
<1>1. s \in vm /\ s.name = name /\ s.labels.validator = v /\ s.ts = t
  BY DEF At
<1>2. PICK p \in Imported : s \in Lines(p)
  BY <1>1 DEF PathInv
<1>3. p \in made /\ p.kind \in {"rpc", "metrics"} /\ p.validator = v /\ p.ts = t
  BY <1>1, <1>2, LineShape DEF PathInv, Imported
<1>4. p.kind = "metrics"
  BY <1>1, <1>2, <1>3, RpcSamples DEF Lines, RpcShape
<1>5. s \in extractMetrics(v, t, p.data)
  BY <1>2, <1>3, <1>4 DEF Lines, Timestamp
<1>6. /\ "container" \in DOMAIN p.data /\ p.data["container"].ok
      /\ s \in metricsLines("container", v, t, p.data["container"])
  BY <1>1, <1>5, MetricsSamples DEF MetricsShape
<1>7. s \in appendContainer(v, t, p.data["container"])
  BY <1>6 DEF metricsLines
<1> QED  BY <1>3, <1>4, <1>6, <1>7

LEMMA ContainerMemory ==
  ASSUME NEW v, NEW t, NEW r, NEW s \in appendContainer(v, t, r)
  PROVE  /\ s.name = "container_memory_usage" => s.value = r.memory.usage
         /\ s.name = "container_memory_working_set" => s.value = workingSet(r.memory)
BY FieldShape DEF appendContainer

(* A container's working set never exceeds its usage, nor wraps below      *)
(* zero, although inactive_file is sampled apart.                          *)
THEOREM WorkingSetIsBounded == Spec => []WorkingSetBounded
<1>1. PathInv => WorkingSetBounded
  <2> SUFFICES ASSUME PathInv, NEW v \in Validators, NEW t \in 0..MaxTime,
                      NEW w \in At("container_memory_working_set", v, t),
                      NEW u \in At("container_memory_usage", v, t)
               PROVE  w.value \in 0..u.value
    BY DEF WorkingSetBounded
  <2>1. PICK p \in made :
          /\ p.kind = "metrics" /\ p.validator = v /\ p.ts = t
          /\ "container" \in DOMAIN p.data /\ p.data["container"].ok
          /\ w \in appendContainer(v, t, p.data["container"])
    BY MemoryAt DEF MemoryNames
  <2>2. PICK q \in made :
          /\ q.kind = "metrics" /\ q.validator = v /\ q.ts = t
          /\ u \in appendContainer(v, t, q.data["container"])
    BY MemoryAt DEF MemoryNames
  <2>3. p = q
    BY <2>1, <2>2 DEF PathInv
  <2> DEFINE m == p.data["container"].memory
  <2>4. w.value = workingSet(m) /\ u.value = m.usage
    BY <2>1, <2>2, <2>3, ContainerMemory DEF At
  <2>5. m.usage \in 0..(Word - 1) /\ m.inactive_file \in {NotInt} \cup 0..(Word - 1)
    BY <2>1 DEF PathInv, PayloadOK
  <2> QED  BY <2>4, <2>5, WorkingSetFacts
<1> QED  BY <1>1, PathInvariant, PTL
-----------------------------------------------------------------------------
(* What the sort of a batch returns: every entry once, in order.           *)
LEMMA SortedFacts ==
  ASSUME NEW n \in Nat, NEW e, DOMAIN e = 1..n, e \in [1..n -> ToSet(e)],
         \A i, j \in 1..n : e[i] = e[j] => i = j, NEW s \in SortedByNano(e)
  PROVE  /\ s \in [1..n -> ToSet(e)] /\ \A x \in ToSet(e) : \E i \in 1..n : s[i] = x
         /\ \A i, j \in 1..n : i < j => s[i].nano <= s[j].nano
<1>1. IsFiniteSet(1..n) /\ Cardinality(1..n) = n
  BY FS_Interval
<1>2. e \in Surjection(1..n, ToSet(e)) /\ e \in Injection(1..n, ToSet(e))
  BY DEF Surjection, Injection, IsInjective, ToSet
<1>3. IsFiniteSet(ToSet(e)) /\ Cardinality(ToSet(e)) = n
  BY <1>1, <1>2, FS_Surjection
<1>4. s \in [1..n -> ToSet(e)] /\ \A i, j \in 1..n : i # j => s[i] # s[j]
  BY <1>3 DEF SortedByNano, SetToSeqs
<1>5. s \in Injection(1..n, ToSet(e))
  BY <1>4 DEF Injection, IsInjective
<1>6. s \in Surjection(1..n, ToSet(e))
  BY <1>1, <1>3, <1>5, FS_Injection
<1>7. \A i, j \in 1..n : i < j => s[i].nano <= s[j].nano
  BY <1>4 DEF SortedByNano
<1> QED  BY <1>4, <1>6, <1>7 DEF Surjection

(* PushOrdered, of a push given by its parts.                              *)
PushOK(at, lines, values) ==
  LET window == (at - PastSkew)..(at + FutureSkew)
  IN  /\ Len(values) = Len(lines)
      /\ {values[i].line : i \in DOMAIN values} = DOMAIN lines
      /\ \A i \in DOMAIN values :
           LET own == extractModuleAndTS(lines[values[i].line], at).at
           IN  /\ values[i].nano \in window
               /\ own \in window => values[i].nano = own
               /\ i > 1 => values[i - 1].nano <= values[i].nano

LEMMA EntryFacts ==
  ASSUME NEW line \in LogLine, NEW i, NEW at \in Nat,
         NEW x, x = lokiEntry(line, i, at, PastSkew, FutureSkew)
  PROVE  LET own == extractModuleAndTS(line, at).at
             window == (at - PastSkew)..(at + FutureSkew)
         IN  x.line = i /\ x.nano \in window /\ (own \in window => x.nano = own)
<1>1. extractModuleAndTS(line, at).at \in Int
  BY DEF extractModuleAndTS, LogLine
<1>2. x.line = i /\ x.nano = Clamp(extractModuleAndTS(line, at).at, at, PastSkew, FutureSkew)
  BY DEF lokiEntry
<1>3. PastSkew \in Nat /\ FutureSkew \in Nat
  BY ForwarderAssumption
<1> QED  BY <1>1, <1>2, <1>3 DEF Clamp

LEMMA PushFacts ==
  ASSUME NEW lines \in Seq(LogLine), NEW at \in Nat,
         NEW values \in toLokiPush(lines, at, PastSkew, FutureSkew)
  PROVE  PushOK(at, lines, values)
<1>1. PICK n \in Nat : n = Len(lines) /\ DOMAIN lines = 1..n
  OBVIOUS
<1>2. PICK e : e = [i \in 1..n |-> lokiEntry(lines[i], i, at, PastSkew, FutureSkew)]
  OBVIOUS
<1>3. /\ DOMAIN e = 1..n /\ e \in [1..n -> ToSet(e)] /\ \A x \in ToSet(e) : \E i \in 1..n : x = e[i]
      /\ values \in SortedByNano(e)
  BY <1>1, <1>2 DEF ToSet, toLokiPush
<1>4. ASSUME NEW i \in 1..n
      PROVE  LET own == extractModuleAndTS(lines[i], at).at
                 window == (at - PastSkew)..(at + FutureSkew)
             IN  e[i].line = i /\ e[i].nano \in window /\ (own \in window => e[i].nano = own)
  <2>1. lines[i] \in LogLine
    BY <1>1
  <2> QED  BY <1>2, <2>1, EntryFacts
<1>5. \A i, j \in 1..n : e[i] = e[j] => i = j
  BY <1>4
<1>6. /\ values \in [1..n -> ToSet(e)] /\ \A x \in ToSet(e) : \E i \in 1..n : values[i] = x
      /\ \A i, j \in 1..n : i < j => values[i].nano <= values[j].nano
  BY <1>3, <1>5, SortedFacts
<1>7. DOMAIN values = 1..n /\ Len(values) = n
  BY <1>6
<1>8. {values[i].line : i \in 1..n} = 1..n
  <2>1. ASSUME NEW i \in 1..n PROVE values[i].line \in 1..n
    <3>1. PICK j \in 1..n : values[i] = e[j]
      BY <1>3, <1>6
    <3>2. e[j].line = j
      BY <1>4
    <3> QED  BY <3>1, <3>2
  <2>2. ASSUME NEW k \in 1..n PROVE \E i \in 1..n : values[i].line = k
    <3>1. e[k].line = k /\ e[k] \in ToSet(e)
      BY <1>3, <1>4
    <3>2. PICK i \in 1..n : values[i] = e[k]
      BY <1>6, <3>1
    <3> QED  BY <3>1, <3>2
  <2> QED  BY <2>1, <2>2
<1>9. ASSUME NEW i \in 1..n
      PROVE  LET own == extractModuleAndTS(lines[values[i].line], at).at
                 window == (at - PastSkew)..(at + FutureSkew)
             IN  /\ values[i].nano \in window
                 /\ own \in window => values[i].nano = own
                 /\ i > 1 => values[i - 1].nano <= values[i].nano
  <2>1. PICK j \in 1..n : values[i] = e[j]
    BY <1>3, <1>6
  <2>2. values[i].line = j
    BY <1>4, <2>1
  <2>3. i > 1 => values[i - 1].nano <= values[i].nano
    BY <1>6
  <2> QED  BY <1>4, <2>1, <2>2, <2>3
<1> QED  BY <1>1, <1>7, <1>8, <1>9 DEF PushOK

PushInv == PathInv /\ PushOrdered

LEMMA PushStep == PushInv /\ [Next]_vars => PushInv'
<1> SUFFICES ASSUME PushInv, [Next]_vars PROVE PushInv'
  OBVIOUS
<1>1. PathInv'
  BY PathStep DEF PushInv
<1>2. ASSUME UNCHANGED push PROVE PushInv'
  BY <1>1, <1>2 DEF PushInv, PushOrdered
<1>3. ASSUME NEW p \in flight, ForwardLogs(p) PROVE PushInv'
  <2>1. PICK values \in toLokiPush(p.data.lines, now, PastSkew, FutureSkew) :
          push' = [at |-> now, lines |-> p.data.lines, values |-> values]
    BY <1>3 DEF ForwardLogs
  <2>2. p.data.lines \in Seq(LogLine) /\ now \in Nat
    BY <1>3 DEF ForwardLogs, PushInv, PathInv, PayloadOK
  <2>3. PushOK(now, p.data.lines, values)
    BY <2>1, <2>2, PushFacts
  <2>4. push'.at = now /\ push'.lines = p.data.lines /\ push'.values = values
    BY <2>1
  <2>5. PushOK(push'.at, push'.lines, push'.values)
    BY <2>3, <2>4
  <2> QED  BY <1>1, <2>5 DEF PushInv, PushOrdered, PushOK
<1> QED  BY <1>2, <1>3 DEF Next, Tick, PollRpc, PollMetrics, Poll, CollectLogs, Submit, ForwardLines, GiveUp, vars

(* toLokiPush sends every line of a batch once, in the order of its times, *)
(* within the window Loki accepts, and moves no time that is in it.        *)
THEOREM PushIsOrdered == Spec => []PushOrdered
<1>1. Init => PushInv
  <2> SUFFICES ASSUME Init PROVE PushOrdered
    BY PathInit DEF PushInv
  <2>1. push.values = <<>> /\ push.lines = <<>>
    BY DEF Init
  <2> QED  BY <2>1 DEF PushOrdered
<1>2. PushInv => PushOrdered
  BY DEF PushInv
<1> QED  BY <1>1, <1>2, PushStep, PTL DEF Spec
=============================================================================
